---- MODULE Spec2Model ----
(***************************************************************************)
(* Model of the pi-config extensions: the edit-prompt marker protocol      *)
(* (extractSection / prepareFile / the /edit command) and the Q&A          *)
(* extension (draft_questions, /questions, /answer, session restore).      *)
(*                                                                         *)
(* Text.  A JavaScript string is modelled as a sequence of tokens.  Each   *)
(* ordinary character is one token ("x", " ", "\n"); the fixed pieces the  *)
(* code concatenates into markers and templates are one token each         *)
(* ("<!-- prompt: ", " -->", "# Answers", "---", ...), and so is a         *)
(* timestamp, which generateTimestamp() always produces with the fixed     *)
(* 19-character shape YYYY-MM-DDTHH:MM:SS.  indexOf, slice, trim, split    *)
(* and join are computed on the token sequence the way the JavaScript      *)
(* built-ins compute them on characters.                                   *)
(***************************************************************************)
EXTENDS Integers, Sequences, FiniteSets, TLC

VARIABLES
    \* ---- extractSection applied to arbitrary file texts
    exFile,        \* the file handed to extractSection: NoFile or its text
    exArg,         \* the timestamp argument of the calls
    exResults,     \* the results of the calls made so far, in order
    \* ---- edit-prompt extension and shared editor state
    clock,         \* wall clock, in seconds
    activeEditFile,\* shared/editor-state.ts module state
    files,         \* the prompts directory: path -> NoFile or text
    entries,       \* custom entries the extension appended to the session
    editStatus,    \* footer status under STATUS_KEY
    editCount,     \* how many times /edit prepared the file
    editNote,      \* the notification of the last /edit, or NoNote
    lastEdit,      \* what the last /edit invocation did (history)
    editOp,        \* the last edit-prompt operation (history)
    parked,        \* the entries of the other session the host holds
    curBranch,     \* the branch of the session tree the user is on
    \* ---- qna extension
    pendingQuestions, \* in-memory pending questions, or Null
    branch,        \* the session branch: messages and custom entries
    qnaStatus,     \* footer status under "qna"
    inbox,         \* user message handed to pi.sendUserMessage, not yet started
    agent,         \* "idle" or "running"
    qnaNote,       \* what the last qna command showed the user
    lastOp,        \* the last qna operation and its inputs (history)
    tmpdir,        \* the questions.md of each pi-qna-* directory in os.tmpdir()
    \* ---- shared editor utilities
    envEditor,     \* process.env.EDITOR, <<>> when unset or empty
    envVisual,     \* process.env.VISUAL, <<>> when unset or empty
    installed,     \* which of the fallback editors the machine has
    edOut,         \* the last editor utility call and what it returned
    \* ---- fuzzy file search
    fzQuery,       \* the query typed
    fzSubject,     \* a file path the matcher is run on
    fzOut,         \* the pattern built and whether it matched
    \* ---- file selection dialog of /edit
    fdPath,        \* whether fd was found when the extension loaded
    dlg,           \* the FileSelectDialog, open or not
    \* ---- Q&A section utilities of shared/editor-state.ts
    qsFile,        \* the text the utilities work on
    qsStamp,       \* the timestamp of the section
    qsQuestions,   \* the questions the section was created with
    qsOut,         \* how the text came about and what the last call returned
    \* ---- better-file-autocomplete
    acPatched,     \* CombinedAutocompleteProvider.prototype._fuzzyPatched
    acFn,          \* prototype.getFuzzyFileSuggestions
    acFdPath,      \* this.fdPath of the provider: whether fd was found
    acStarts,      \* session_start events so far
    acOut          \* the last call of getFuzzyFileSuggestions (history)

exVars   == <<exFile, exArg, exResults>>
editVars == <<clock, activeEditFile, files, entries, editStatus, editCount,
              editNote, lastEdit, editOp, parked, curBranch>>
qnaVars  == <<pendingQuestions, branch, qnaStatus, inbox, agent, qnaNote,
              lastOp, tmpdir>>
editorVars == <<envEditor, envVisual, installed, edOut>>
fuzzyVars == <<fzQuery, fzSubject, fzOut>>
dlgVars  == <<fdPath, dlg>>
sectVars == <<qsFile, qsStamp, qsQuestions, qsOut>>
patchVars == <<acPatched, acFn, acFdPath, acStarts, acOut>>
toolVars == <<editorVars, fuzzyVars, dlgVars, sectVars, patchVars>>
vars     == <<exVars, editVars, qnaVars, toolVars>>

----------------------------------------------------------------------------
(* Bounds *)

\* Longest file, in pieces (a marker or a character), given to extractSection.
MaxPieces == 5
\* Seconds the wall clock may advance.
MaxClock == 1
\* /edit invocations that reach prepareFile.
MaxEdits == 2
\* Entries in the session branch.
MaxBranch == 5
\* Branches of the session tree.
NumBranches == 2
\* Longest prompt file, in lines, that prepareFile finds in place.
MaxLines == 4
\* Longest query typed into a fuzzy search, in characters.
MaxQuery == 2
\* Longest file path the fuzzy pattern is matched against, in characters.
MaxSubject == 3

----------------------------------------------------------------------------
(* Values *)

\* Absent values.  Texts are token sequences, so an absent text is a
\* sequence no text equals; an absent path is the empty path, which the
\* code's `!filepath` treats like undefined.
NoFile == <<"<no file>">>
Null   == <<"<null>">>
NoNote == "<none>"
NoPath == [stem |-> "", ext |-> ""]

NL == "\n"
SP == " "
Whitespace == {SP, NL}

\* new Date().toISOString().slice(0, 19) at second n of the model's minute.
Stamp(n) == "2026-01-13T14:30:0" \o ToString(n)

----------------------------------------------------------------------------
(* JavaScript string built-ins on token sequences *)

\* Whether M occurs in T at 0-based offset i.
MatchAt(T, i, M) ==
    /\ i + Len(M) <= Len(T)
    /\ \A k \in 1..Len(M) : T[i + k] = M[k]

\* T.indexOf(M): the first offset where M occurs, or -1.
RECURSIVE indexOfFrom(_, _, _)
indexOfFrom(T, M, i) ==
    IF i + Len(M) > Len(T) THEN -1
    ELSE IF MatchAt(T, i, M) THEN i
    ELSE indexOfFrom(T, M, i + 1)

indexOf(T, M) == indexOfFrom(T, M, 0)

\* T.slice(a, b) for 0 <= a, 0 <= b: empty when b <= a.
slice(T, a, b) ==
    LET hi == IF b > Len(T) THEN Len(T) ELSE b
    IN  IF a >= hi THEN <<>> ELSE SubSeq(T, a + 1, hi)

RECURSIVE trimStart(_)
trimStart(T) ==
    IF T # <<>> /\ Head(T) \in Whitespace THEN trimStart(Tail(T)) ELSE T

RECURSIVE trimEnd(_)
trimEnd(T) ==
    IF T # <<>> /\ T[Len(T)] \in Whitespace
    THEN trimEnd(SubSeq(T, 1, Len(T) - 1))
    ELSE T

\* T.trim()
trim(T) == trimEnd(trimStart(T))

\* T.split("\n"): the lines of T (always at least one).
RECURSIVE splitFrom(_, _, _)
splitFrom(T, i, cur) ==
    IF i > Len(T) THEN <<cur>>
    ELSE IF T[i] = NL THEN <<cur>> \o splitFrom(T, i + 1, <<>>)
    ELSE splitFrom(T, i + 1, Append(cur, T[i]))

split(T) == splitFrom(T, 1, <<>>)

\* lines.join("\n")
RECURSIVE join(_)
join(lines) ==
    IF lines = <<>> THEN <<>>
    ELSE IF Len(lines) = 1 THEN lines[1]
    ELSE lines[1] \o <<NL>> \o join(Tail(lines))

----------------------------------------------------------------------------
(* edit-prompt: markers and extractSection *)

\* `<!-- prompt: ${timestamp} -->`
startMarkerStale(timestamp) == <<"<!-- prompt: ", Stamp(0), " -->">>
startMarker(timestamp) == <<"<!-- prompt: ", timestamp, " -->">>

\* `<!-- prompt-end: ${timestamp} -->`
endMarker(timestamp) == <<"<!-- prompt-end: ", timestamp, " -->">>

\* T.lastIndexOf(M), used by mutants only.
RECURSIVE lastIndexOfFrom(_, _, _)
lastIndexOfFrom(T, M, i) ==
    IF i < 0 THEN -1
    ELSE IF MatchAt(T, i, M) THEN i
    ELSE lastIndexOfFrom(T, M, i - 1)

\* extractSection with the end marker searched from the back of the file.
extractSectionLastEnd(file, timestamp) ==
    IF file = NoFile THEN <<>>
    ELSE LET startIndex == indexOf(file, startMarker(timestamp))
             endIndex == lastIndexOfFrom(file, endMarker(timestamp), Len(file))
             contentStart == startIndex + Len(startMarker(timestamp))
         IN  IF startIndex = -1 THEN <<>>
             ELSE IF endIndex = -1 THEN <<>>
             ELSE IF endIndex <= contentStart THEN <<>>
             ELSE trim(slice(file, contentStart, endIndex))

\* extractSection that forgets to skip the start marker itself.
extractSectionFromStart(file, timestamp) ==
    IF file = NoFile THEN <<>>
    ELSE LET startIndex == indexOf(file, startMarker(timestamp))
             endIndex == indexOf(file, endMarker(timestamp))
             contentStart == startIndex + Len(startMarker(timestamp))
         IN  IF startIndex = -1 THEN <<>>
             ELSE IF endIndex = -1 THEN <<>>
             ELSE IF endIndex <= contentStart THEN <<>>
             ELSE trim(slice(file, startIndex, endIndex))

\* extractSection that remembers its previous answer (a stateful matcher):
\* reads the model's record of the calls made so far.
extractSectionStateful(file, timestamp) ==
    IF exResults # <<>> THEN <<>>
    ELSE IF file = NoFile THEN <<>>
    ELSE LET startIndex == indexOf(file, startMarker(timestamp))
             endIndex == indexOf(file, endMarker(timestamp))
             contentStart == startIndex + Len(startMarker(timestamp))
         IN  IF startIndex = -1 THEN <<>>
             ELSE IF endIndex = -1 THEN <<>>
             ELSE IF endIndex <= contentStart THEN <<>>
             ELSE trim(slice(file, contentStart, endIndex))

\* extractSection(filepath, timestamp), `file` being what is at filepath.
extractSection(file, timestamp) ==
    IF file = NoFile THEN <<>>
    ELSE LET content == file
             startIndex == indexOf(content, startMarker(timestamp))
             endIndex == indexOf(content, endMarker(timestamp))
             contentStart == startIndex + Len(startMarker(timestamp))
         IN  IF startIndex = -1 THEN <<>>
             ELSE IF endIndex = -1 THEN <<>>
             ELSE IF endIndex <= contentStart THEN <<>>
             ELSE trim(slice(content, contentStart, endIndex))

----------------------------------------------------------------------------
(* extractSection applied to arbitrary file texts *)

\* The two timestamps the texts below carry markers for.
ExStamps == {Stamp(0), Stamp(1)}

\* What a text is made of: whole markers of either timestamp, a character
\* and a blank.
ExPieces ==
    {<<"<!-- prompt: ", t, " -->">> : t \in ExStamps}
        \cup {<<"<!-- prompt-end: ", t, " -->">> : t \in ExStamps}
        \cup {<<"x">>, <<SP>>}

RECURSIVE Flatten(_)
Flatten(ps) == IF ps = <<>> THEN <<>> ELSE Head(ps) \o Flatten(Tail(ps))

ExTexts ==
    {Flatten(ps) : ps \in UNION {[1..n -> ExPieces] : n \in 0..MaxPieces}}

ExInit ==
    /\ exFile \in {NoFile} \cup ExTexts
    /\ exArg \in ExStamps
    /\ exResults = <<>>

ExParked ==
    /\ exFile = NoFile
    /\ exArg = Stamp(0)
    /\ exResults = <<>>

\* One call extractSection(filepath, exArg): it reads the file and returns.
ExtractSection ==
    /\ Len(exResults) < 2
    /\ exResults' = Append(exResults, extractSection(exFile, exArg))
    /\ UNCHANGED <<exFile, exArg>>

----------------------------------------------------------------------------
(* edit-prompt: prepareFile, the editor session, the /edit command *)

\* Prompt files the dialog can name; every path it resolves ends in ".md".
Paths == {[stem |-> "notes", ext |-> ".md"], [stem |-> "plan", ext |-> ".md"]}

NoStatus == "<undefined>"

basename(filepath) == filepath.stem \o filepath.ext

\* generateTimestamp(): the wall clock cut to whole seconds.
generateTimestamp == Stamp(clock)

generateFrontmatter(filepath) ==
    LET filename == basename(filepath)
        id == IF filepath.ext = ".md" THEN filepath.stem ELSE filename
    IN  <<"---", NL, "id: " \o id, NL, "aliases: []", NL, "tags: []", NL, "---">>

\* The loop of prepareFile that looks for the second '---' line: the 0-based
\* index of that line, or -1.
RECURSIVE frontmatterEndFrom(_, _, _)
frontmatterEndFrom(lines, i, dashCount) ==
    IF i >= Len(lines) THEN -1
    ELSE IF trim(lines[i + 1]) = <<"---">>
         THEN IF dashCount + 1 = 2 THEN i
              ELSE frontmatterEndFrom(lines, i + 1, dashCount + 1)
         ELSE frontmatterEndFrom(lines, i + 1, dashCount)

\* prepareFile that puts the new section after the old content.
prepareFileAtEnd(old, filepath, timestamp) ==
    IF old = NoFile
    THEN [content |-> generateFrontmatter(filepath) \o <<NL, NL>>
                        \o startMarker(timestamp) \o <<NL, NL>>
                        \o endMarker(timestamp) \o <<NL, NL>>,
          cursorLine |-> 8, timestamp |-> timestamp]
    ELSE [content |-> join(split(old)
                             \o << <<>>, startMarker(timestamp), <<>>,
                                   endMarker(timestamp), <<>> >>),
          cursorLine |-> Len(split(old)) + 3, timestamp |-> timestamp]

\* prepareFile(filepath), `old` being what is at filepath and `timestamp`
\* what generateTimestamp() returned: the text written and the cursor line.
prepareFile(old, filepath, timestamp) ==
    IF old = NoFile
    THEN [content |-> generateFrontmatter(filepath) \o <<NL, NL>>
                        \o startMarker(timestamp) \o <<NL, NL>>
                        \o endMarker(timestamp) \o <<NL, NL>>,
          cursorLine |-> 8, timestamp |-> timestamp]
    ELSE LET lines == split(old)
             frontmatterEndLine == frontmatterEndFrom(lines, 0, 0)
         IN  IF frontmatterEndLine = -1
             THEN [content |-> startMarker(timestamp) \o <<NL, NL>>
                                 \o endMarker(timestamp) \o <<NL, NL>> \o old,
                   cursorLine |-> 2, timestamp |-> timestamp]
             ELSE LET beforeFrontmatter == SubSeq(lines, 1, frontmatterEndLine + 1)
                      afterFrontmatter ==
                          SubSeq(lines, frontmatterEndLine + 2, Len(lines))
                      newLines ==
                          beforeFrontmatter
                              \o << <<>>, startMarker(timestamp), <<>>,
                                    endMarker(timestamp), <<>> >>
                              \o afterFrontmatter
                  IN  [content |-> join(newLines),
                       cursorLine |-> frontmatterEndLine + 4,
                       timestamp |-> timestamp]

\* What the user may do in one editor session on the section just created:
\* type text on the cursor line (or leave it blank), and delete the start
\* marker line, the end marker line, or both.
\* The text typed in the n-th session names that session.
UserTexts(n) == {<<>>, <<SP>>, <<SP, "x" \o ToString(n)>>}
EditorEdits(n) == [text : UserTexts(n), delStart : BOOLEAN, delEnd : BOOLEAN]
NoEdit == [text |-> <<>>, delStart |-> FALSE, delEnd |-> FALSE]

\* The file after the editor session: the cursor is on line cursorLine
\* (1-based), the new start marker on the line above, the new end marker on
\* the line below.
editorSession(content, cursorLine, e) ==
    LET lines == split(content)
    IN  join(SubSeq(lines, 1, cursorLine - 2)
               \o (IF e.delStart THEN <<>> ELSE <<lines[cursorLine - 1]>>)
               \o <<e.text>>
               \o (IF e.delEnd THEN <<>> ELSE <<lines[cursorLine + 1]>>)
               \o SubSeq(lines, cursorLine + 2, Len(lines)))

\* spawnSync's status: null when the editor could not be run.
ExitCodes == {"null", "0", "1"}

\* What the file selection dialog hands to promptForFile: null (modelled as
\* the empty path) or a path with the mode it was submitted in.
NullResult == [path |-> NoPath, mode |-> "new"]
DialogResults == {NullResult} \cup [path : Paths, mode : {"new", "search"}]

\* promptForFile: the path, or the empty path for undefined.
promptForFile(result) ==
    IF result.path = NoPath THEN NoPath
    ELSE IF result.mode = "search" /\ files[result.path] = NoFile THEN NoPath
    ELSE result.path

\* updateStatusIndicator of edit-prompt, for the active file `filepath`.
editStatusFor(filepath) ==
    IF filepath # NoPath THEN basename(filepath) ELSE NoStatus

NoRun ==
    [ran |-> FALSE, prompted |-> FALSE, path |-> NoPath, timestamp |-> "",
     edit |-> NoEdit, exitCode |-> "null", sent |-> Null]

\* `if (!filepath)` on the active file: whether /edit asks for a filename.
needsPromptAlways(active) == TRUE
needsPrompt(active) == active = NoPath

\* The /edit command handler, from the UI check to the sent message.
EditCommand(hasUI, dirExists, result, e, exitCode) ==
    /\ editCount < MaxEdits
    /\ IF ~hasUI
       THEN /\ editNote' = "/edit requires interactive mode"
            /\ lastEdit' = NoRun
            /\ UNCHANGED <<activeEditFile, files, entries, editStatus, editCount>>
       ELSE IF ~dirExists
       THEN /\ editNote' = "Directory does not exist"
            /\ lastEdit' = NoRun
            /\ UNCHANGED <<activeEditFile, files, entries, editStatus, editCount>>
       ELSE LET prompted == needsPrompt(activeEditFile)
                filepath == IF prompted THEN promptForFile(result)
                            ELSE activeEditFile
            IN  IF filepath = NoPath
                THEN /\ editNote' = IF result.path # NoPath THEN "File not found"
                                    ELSE NoNote
                     /\ lastEdit' = [NoRun EXCEPT !.prompted = TRUE]
                     /\ UNCHANGED <<activeEditFile, files, entries, editStatus,
                                    editCount>>
                ELSE \E prep \in {prepareFile(files[filepath], filepath,
                                                generateTimestamp)} :
                     \E edited \in {editorSession(prep.content,
                                                  prep.cursorLine, e)} :
                     \E prompt \in {extractSection(edited, prep.timestamp)} :
                     LET sends == exitCode # "null" /\ prompt # <<>>
                                    /\ trim(prompt) # <<>>
                     IN  /\ activeEditFile' = filepath
                         /\ entries' =
                              IF prompted
                              THEN Append(entries,
                                     [customType |-> "edit-prompt-state",
                                      activePromptFile |-> filepath,
                                      branch |-> curBranch])
                              ELSE entries
                         /\ editStatus' = IF prompted THEN editStatusFor(filepath)
                                          ELSE editStatus
                         /\ files' = [files EXCEPT ![filepath] = edited]
                         /\ editCount' = editCount + 1
                         /\ editNote' =
                              IF exitCode = "null" THEN "Editor closed unexpectedly"
                              ELSE IF ~sends THEN "No prompt entered"
                              ELSE NoNote
                         /\ lastEdit' =
                              [ran |-> TRUE, prompted |-> prompted,
                               path |-> filepath,
                               timestamp |-> prep.timestamp, edit |-> e,
                               exitCode |-> exitCode,
                               sent |-> IF sends THEN trim(prompt) ELSE Null]
    /\ editOp' = "edit"
    /\ UNCHANGED <<clock, parked, curBranch>>

\* reconstructState(ctx), ctxEntries being ctx.sessionManager.getEntries().
reconstructStateNoClear(ctxEntries) ==
    LET stateEntries ==
            SelectSeq(ctxEntries,
                      LAMBDA en : en.customType = "edit-prompt-state")
        restored ==
            IF stateEntries # <<>>
                 /\ stateEntries[Len(stateEntries)].activePromptFile # NoPath
            THEN stateEntries[Len(stateEntries)].activePromptFile
            ELSE activeEditFile
    IN  /\ activeEditFile' = restored
        /\ editStatus' = editStatusFor(restored)
reconstructStateOfBranch(ctxEntries) ==
    LET stateEntries ==
            SelectSeq(ctxEntries,
                      LAMBDA en : /\ en.customType = "edit-prompt-state"
                                  /\ en.branch = curBranch')
        restored ==
            IF stateEntries # <<>>
                 /\ stateEntries[Len(stateEntries)].activePromptFile # NoPath
            THEN stateEntries[Len(stateEntries)].activePromptFile
            ELSE NoPath
    IN  /\ activeEditFile' = restored
        /\ editStatus' = editStatusFor(restored)
reconstructState(ctxEntries) ==
    LET stateEntries ==
            SelectSeq(ctxEntries,
                      LAMBDA en : en.customType = "edit-prompt-state")
        restored ==
            IF stateEntries # <<>>
                 /\ stateEntries[Len(stateEntries)].activePromptFile # NoPath
            THEN stateEntries[Len(stateEntries)].activePromptFile
            ELSE NoPath
    IN  /\ activeEditFile' = restored
        /\ editStatus' = editStatusFor(restored)

\* pi.on("session_start"): the process starts again on the same session.
OnSessionStart ==
    /\ UNCHANGED <<clock, files, entries, editCount, editNote, lastEdit,
                   parked, curBranch>>
    /\ reconstructState(entries)
    /\ editOp' = "session_start"

\* pi.on("session_switch"): the host has loaded the other session it holds
\* (/resume), or a new, empty one (/new).
OnSessionSwitch(fresh) ==
    /\ entries' = IF fresh THEN <<>> ELSE parked
    /\ parked' = entries
    /\ curBranch' = 1
    /\ reconstructState(entries')
    /\ editOp' = "session_switch"
    /\ UNCHANGED <<clock, files, editCount, editNote, lastEdit>>

\* pi.on("session_fork"): the host has made a new session of the first k
\* entries of the current one.
OnSessionFork(k) ==
    /\ k \in 0..Len(entries)
    /\ entries' = SubSeq(entries, 1, k)
    /\ parked' = entries
    /\ UNCHANGED <<clock, files, editCount, editNote, lastEdit, curBranch>>
    /\ reconstructState(entries')
    /\ editOp' = "session_fork"

\* pi.on("session_tree"): the user has moved to branch b of the session.
OnSessionTree(b) ==
    /\ b \in 1..NumBranches
    /\ curBranch' = b
    /\ reconstructState(entries)
    /\ editOp' = "session_tree"
    /\ UNCHANGED <<clock, files, entries, editCount, editNote, lastEdit,
                   parked>>

\* A second of wall-clock time passes.
Tick ==
    /\ clock < MaxClock
    /\ clock' = clock + 1
    /\ editOp' = "tick"
    /\ UNCHANGED <<activeEditFile, files, entries, editStatus, editCount,
                   editNote, lastEdit, parked, curBranch>>

\* Prompt files as /edit may find them: absent, or written by hand.
InitialFiles == {NoFile, <<"y", NL>>}

\* Lines of prompt files written by hand or by other tools.
FileLines == {<<"---">>, <<"id: n">>, <<"y">>, <<>>}

\* Prompt files of up to MaxLines such lines, and the absent file.
PreparedFiles ==
    {NoFile} \cup
        {join(ls) : ls \in UNION {[1..n -> FileLines] : n \in 1..MaxLines}}

\* The state before /edit, the prompt files being any of PreparedFiles.
PrepareInit ==
    /\ clock = 0
    /\ activeEditFile = NoPath
    /\ files \in {[p \in Paths |-> f] : f \in PreparedFiles}
    /\ entries = <<>>
    /\ editStatus = NoStatus
    /\ editCount = 0
    /\ editNote = NoNote
    /\ lastEdit = NoRun
    /\ editOp = "init"
    /\ parked = <<>>
    /\ curBranch = 1

\* Inputs of one /edit: an input the handler does not get to read is held
\* at its default, so that one step is not enumerated many times over.
EditAsks(hasUI, dirExists) ==
    hasUI /\ dirExists /\ needsPrompt(activeEditFile)
EditRuns(hasUI, dirExists, result) ==
    /\ hasUI
    /\ dirExists
    /\ activeEditFile # NoPath \/ promptForFile(result) # NoPath

EditInit ==
    /\ clock = 0
    /\ activeEditFile = NoPath
    /\ files \in {[p \in Paths |-> f] : f \in InitialFiles}
    /\ entries = <<>>
    /\ editStatus = NoStatus
    /\ editCount = 0
    /\ editNote = NoNote
    /\ lastEdit = NoRun
    /\ editOp = "init"
    /\ parked = <<>>
    /\ curBranch = 1

EditParked ==
    /\ clock = 0
    /\ activeEditFile = NoPath
    /\ files = [p \in Paths |-> NoFile]
    /\ entries = <<>>
    /\ editStatus = NoStatus
    /\ editCount = 0
    /\ editNote = NoNote
    /\ lastEdit = NoRun
    /\ editOp = "init"
    /\ parked = <<>>
    /\ curBranch = 1

----------------------------------------------------------------------------
(* qna extension *)

DELIMITER == "# Answers"

\* JavaScript truthiness of `string | null`: neither null nor "".
Truthy(q) == q # Null /\ q # <<>>

\* Texts the model hands to draft_questions (Type.String accepts any
\* string): the empty string, one line, a text that itself holds the line
\* "# Answers", and a text of more than five lines with a blank one.
Questions ==
    {<<>>,
     <<"q1?">>,
     <<"q2?", NL, "# Answers">>,
     <<"a?", NL, "b?", NL, NL, "c?", NL, "d?", NL, "e?">>}

\* Session entries, as the handlers read them.
DraftEntry(q) ==
    [type |-> "message", role |-> "toolResult", name |-> "draft_questions",
     data |-> q]
ClearEntry(reason) ==
    [type |-> "custom", role |-> "", name |-> "qna-clear", data |-> <<reason>>]
UserEntry(m) ==
    [type |-> "message", role |-> "user", name |-> "", data |-> m]

\* createTempFile: the text written to questions.md.
createTempFile(questions) ==
    <<"# Questions", NL, NL>> \o questions \o <<NL, NL, DELIMITER, NL, NL>>

\* parseResponse(content)
parseResponse(content) ==
    LET delimiterIndex == indexOf(content, <<DELIMITER>>)
    IN  IF delimiterIndex = -1 THEN Null
        ELSE LET response ==
                     trim(slice(content, delimiterIndex + Len(<<DELIMITER>>),
                                Len(content)))
             IN  IF response # <<>> THEN response ELSE Null

\* updateStatusIndicator of qna, for pending questions `q`.
qnaStatusFor(q) ==
    IF Truthy(q) THEN "Questions pending - /answer to respond" ELSE NoStatus

\* What the user may do to questions.md in the editor: nothing, write an
\* answer below the delimiter, add blank space only, empty the file, or
\* remove it.
AnswerEdits == {"none", "answer", "blank", "wipe", "unlink"}

answerSession(content, e) ==
    CASE e = "none"   -> content
      [] e = "answer" -> content \o <<"a1", NL>>
      [] e = "blank"  -> content \o <<SP, NL>>
      [] e = "wipe"   -> <<>>
      [] e = "unlink" -> NoFile

NoShow == [kind |-> "none", text |-> <<>>]
\* join(tempDir, "questions.md")
TempPath == [stem |-> "questions", ext |-> ".md"]

NoOp ==
    [op |-> "init", questions |-> Null, hasUI |-> TRUE, edit |-> "none",
     exitCode |-> "0", response |-> Null, file |-> NoPath, fault |-> "none"]

\* The loop of the session_start handler over the branch, from entry i on.
RECURSIVE walkBranch(_, _, _, _)
walkBranch(b, i, lastDraftedQuestions, wasCleared) ==
    IF i > Len(b)
    THEN [lastDraftedQuestions |-> lastDraftedQuestions, wasCleared |-> wasCleared]
    ELSE LET entry == b[i]
             isDraft == /\ entry.type = "message"
                        /\ entry.role = "toolResult"
                        /\ entry.name = "draft_questions"
                        /\ entry.data # <<>>
             isClear == entry.type = "custom" /\ entry.name = "qna-clear"
         IN  walkBranch(b, i + 1,
                        IF isDraft THEN entry.data ELSE lastDraftedQuestions,
                        IF isClear THEN TRUE
                        ELSE IF isDraft THEN FALSE ELSE wasCleared)

\* What session_start leaves in pendingQuestions for branch b.
restorePending(b) ==
    LET w == walkBranch(b, 1, Null, FALSE)
    IN  IF Truthy(w.lastDraftedQuestions) /\ ~w.wasCleared
        THEN w.lastDraftedQuestions
        ELSE Null

\* EVENT session_start: the process starts (or starts again) on the branch.
SessionStart ==
    /\ pendingQuestions' = restorePending(branch)
    /\ qnaStatus' = qnaStatusFor(restorePending(branch))
    /\ agent' = "idle"
    /\ inbox' = Null
    /\ qnaNote' = NoShow
    /\ lastOp' = [NoOp EXCEPT !.op = "session_start"]
    /\ UNCHANGED <<branch, tmpdir>>

\* The entries the before_agent_start handler appends.
skippedEntriesAlways(pending) == <<ClearEntry("skipped")>>
skippedEntries(pending) ==
    IF Truthy(pending) THEN <<ClearEntry("skipped")>> ELSE <<>>

\* EVENT before_agent_start for user message m; the host then records m and
\* runs the agent.
BeforeAgentStart(m) ==
    /\ agent = "idle"
    /\ Len(branch) + 2 <= MaxBranch
    /\ branch' = branch \o skippedEntries(pendingQuestions) \o <<UserEntry(m)>>
    /\ pendingQuestions' =
         IF Truthy(pendingQuestions) THEN Null ELSE pendingQuestions
    /\ qnaStatus' =
         IF Truthy(pendingQuestions) THEN qnaStatusFor(Null) ELSE qnaStatus
    /\ agent' = "running"
    /\ inbox' = Null
    /\ qnaNote' = NoShow
    /\ lastOp' = [NoOp EXCEPT !.op = "before_agent_start",
                              !.questions = pendingQuestions]
    /\ UNCHANGED tmpdir

\* The user types a new prompt.
UserPrompt ==
    /\ inbox = Null
    /\ BeforeAgentStart(<<"p">>)

\* The message /answer sent starts the agent.
QueuedPrompt ==
    /\ inbox # Null
    /\ BeforeAgentStart(inbox)

\* What draft_questions.execute leaves in pendingQuestions.
draftPendingAppend(pending, questions) ==
    IF Truthy(pending) THEN pending \o <<NL>> \o questions ELSE questions
draftPending(pending, questions) == questions

\* TOOL draft_questions.execute; the host records the returned tool result.
DraftQuestions(questions) ==
    /\ agent = "running"
    /\ Len(branch) < MaxBranch
    /\ pendingQuestions' = draftPending(pendingQuestions, questions)
    /\ qnaStatus' = qnaStatusFor(draftPending(pendingQuestions, questions))
    /\ branch' = Append(branch, DraftEntry(questions))
    /\ qnaNote' = NoShow
    /\ lastOp' = [NoOp EXCEPT !.op = "draft_questions", !.questions = questions]
    /\ UNCHANGED <<agent, inbox, tmpdir>>

\* The agent's turn ends.
AgentEnd ==
    /\ agent = "running"
    /\ agent' = "idle"
    /\ qnaNote' = NoShow
    /\ lastOp' = [NoOp EXCEPT !.op = "agent_end"]
    /\ UNCHANGED <<pendingQuestions, branch, qnaStatus, inbox, tmpdir>>

\* lines.filter((l) => l.trim())
RECURSIVE nonBlank(_)
nonBlank(lines) ==
    IF lines = <<>> THEN <<>>
    ELSE IF trim(Head(lines)) # <<>> THEN <<Head(lines)>> \o nonBlank(Tail(lines))
    ELSE nonBlank(Tail(lines))

\* What /questions puts on the screen for pending questions `pending`.
questionsShown(pending) ==
    IF ~Truthy(pending)
    THEN [kind |-> "notify", text |-> <<"No pending questions">>]
    ELSE LET lines == split(pending)
         IN  IF Len(lines) <= 5
             THEN [kind |-> "notify",
                   text |-> <<"Pending questions:", NL>> \o pending]
             ELSE [kind |-> "select",
                   text |-> join(nonBlank(lines)
                                   \o << <<"----">>, <<"Run /answer to respond">> >>)]

\* COMMAND /questions
QuestionsCommand ==
    /\ agent = "idle"
    /\ inbox = Null
    /\ qnaNote' = questionsShown(pendingQuestions)
    /\ lastOp' = [NoOp EXCEPT !.op = "questions", !.questions = pendingQuestions]
    /\ UNCHANGED <<pendingQuestions, branch, qnaStatus, inbox, agent, tmpdir>>

\* The part of the /answer handler that follows a non-null response:
\* appendEntry, clear, updateStatusIndicator, sendUserMessage.
answerHandleSendFirst(response) ==
    /\ branch' = branch \o skippedEntries(pendingQuestions)
                        \o <<ClearEntry("answered")>>
    /\ pendingQuestions' = Null
    /\ qnaStatus' = qnaStatusFor(Null)
    /\ inbox' = response
answerHandleStaleStatus(response) ==
    /\ branch' = Append(branch, ClearEntry("answered"))
    /\ pendingQuestions' = Null
    /\ qnaStatus' = qnaStatus
    /\ inbox' = response
answerHandle(response) ==
    /\ branch' = Append(branch, ClearEntry("answered"))
    /\ pendingQuestions' = Null
    /\ qnaStatus' = qnaStatusFor(Null)
    /\ inbox' = response

\* Where the /answer handler may throw after the temporary file exists:
\* nowhere, in ctx.ui.custom (opening the editor), in pi.appendEntry, in
\* pi.sendUserMessage.
Faults == {"none", "open", "append", "send"}

\* What a throw at `fault` leaves of the handling of a non-null response.
answerHandleUpTo(response, fault) ==
    IF fault = "append"
    THEN UNCHANGED <<pendingQuestions, branch, qnaStatus, inbox>>
    ELSE IF fault = "send"
    THEN /\ branch' = Append(branch, ClearEntry("answered"))
         /\ pendingQuestions' = Null
         /\ qnaStatus' = qnaStatusFor(Null)
         /\ UNCHANGED inbox
    ELSE answerHandle(response)

\* The finally block, cleanupTempFile(tempFile): the temporary directories
\* left of `dirs` when the try block ended with `outcome`.
answerFinallyAtEnd(dirs, tempFile, outcome) ==
    IF outcome = "sent" THEN dirs \ {tempFile} ELSE dirs
answerFinally(dirs, tempFile, outcome) == dirs \ {tempFile}

\* COMMAND /answer: the whole handler, a throw at `fault` included; the
\* editor runs under spawnSync, so nothing else happens while the user
\* edits.
AnswerRun(hasUI, e, exitCode, fault) ==
    /\ agent = "idle"
    /\ inbox = Null
    /\ Len(branch) < MaxBranch
    /\ exitCode = "null" => e = "none"
    /\ UNCHANGED agent
    /\ IF ~hasUI
       THEN /\ fault = "none"
            /\ qnaNote' = [kind |-> "notify",
                           text |-> <<"/answer requires interactive mode">>]
            /\ lastOp' = [NoOp EXCEPT !.op = "answer", !.hasUI = FALSE,
                                      !.questions = pendingQuestions]
            /\ UNCHANGED <<pendingQuestions, branch, qnaStatus, inbox, tmpdir>>
       ELSE IF ~Truthy(pendingQuestions)
       THEN /\ fault = "none"
            /\ qnaNote' = [kind |-> "notify",
                           text |-> <<"No pending questions to answer">>]
            /\ lastOp' = [NoOp EXCEPT !.op = "answer",
                                      !.questions = pendingQuestions]
            /\ UNCHANGED <<pendingQuestions, branch, qnaStatus, inbox, tmpdir>>
       ELSE LET questions == pendingQuestions
                tempFile == createTempFile(questions)
                edited == answerSession(tempFile, e)
                response == IF fault # "open" /\ exitCode = "0"
                                 /\ edited # NoFile
                            THEN parseResponse(edited)
                            ELSE Null
                outcome == IF fault = "open" THEN "threw"
                           ELSE IF response = Null THEN "empty"
                           ELSE IF fault # "none" THEN "threw"
                           ELSE "sent"
            IN  /\ fault = "open" => (e = "none" /\ exitCode = "null")
                /\ fault \in {"append", "send"} => response # Null
                /\ qnaNote' = [kind |-> "editor", text |-> tempFile]
                /\ lastOp' = [op |-> "answer", questions |-> questions,
                              hasUI |-> TRUE, edit |-> e, exitCode |-> exitCode,
                              response |-> response, file |-> TempPath,
                              fault |-> fault]
                /\ IF response = Null
                   THEN UNCHANGED <<pendingQuestions, branch, qnaStatus, inbox>>
                   ELSE answerHandleUpTo(response, fault)
                /\ tmpdir' = answerFinally(tmpdir \cup {tempFile}, tempFile,
                                           outcome)

\* COMMAND /answer when nothing throws.
AnswerCommand(hasUI, e, exitCode) == AnswerRun(hasUI, e, exitCode, "none")

QnaInit ==
    /\ pendingQuestions = Null
    /\ branch = <<>>
    /\ qnaStatus = NoStatus
    /\ inbox = Null
    /\ agent = "idle"
    /\ qnaNote = NoShow
    /\ lastOp = NoOp
    /\ tmpdir = {}

----------------------------------------------------------------------------
(* shared/editor-state.ts: getEditor, getEditorArgs, openInEditor *)

\* Editor commands, character by character.
Nvim == <<"n", "v", "i", "m">>
Vim == <<"v", "i", "m">>
Vi == <<"v", "i">>
Nano == <<"n", "a", "n", "o">>
Emacs == <<"e", "m", "a", "c", "s">>

\* Values of $EDITOR and $VISUAL: unset, the editors of the table with and
\* without a directory and in capitals, and editors the table does not name.
EditorCommands ==
    {<<>>, Vim, Vi, Nvim, Nano, Emacs,
     <<"/", "b", "/">> \o Vim,
     <<"V", "i", "m">>,
     <<"g", "v", "i", "m">>,
     <<"v", "i", "s">>,
     <<"c", "o", "d", "e">>,
     <<"h", "x">>}
VisualCommands == {<<>>, Nano, <<"c", "o", "d", "e">>}

\* The file and the cursor lines the callers pass; NoLine is `undefined`.
EdFile == "notes.md"
NoLine == 0
CursorLines == {NoLine, 2, 8}

\* a || b on strings
orElse(a, b) == IF a # <<>> THEN a ELSE b

\* getEditor()
getEditor ==
    orElse(orElse(orElse(orElse(envEditor, envVisual), Nvim), Vim), Vi)

\* editor.split("/").pop(): what follows the last "/".
RECURSIVE lastSegment(_)
lastSegment(T) ==
    IF indexOf(T, <<"/">>) = -1 THEN T
    ELSE lastSegment(slice(T, indexOf(T, <<"/">>) + 1, Len(T)))

\* toLowerCase(), on the letters the model uses.
lowerChar(c) ==
    CASE c = "V" -> "v"
      [] c = "I" -> "i"
      [] c = "M" -> "m"
      [] OTHER -> c
toLowerCase(T) == [k \in 1..Len(T) |-> lowerChar(T[k])]

\* T.includes(M)
includes(T, M) == indexOf(T, M) # -1

\* `+${cursorLine}`
plusLine(cursorLine) == "+" \o ToString(cursorLine)

\* getEditorArgs(filePath, cursorLine)
getEditorArgs(filePath, cursorLine) ==
    IF cursorLine = NoLine THEN <<filePath>>
    ELSE LET editor == getEditor
             editorName == orElse(toLowerCase(lastSegment(editor)), <<>>)
         IN  IF \/ includes(editorName, Vim)
                \/ includes(editorName, Vi)
                \/ editorName = Nvim
             THEN <<plusLine(cursorLine), filePath>>
             ELSE IF includes(editorName, Nano)
             THEN <<plusLine(cursorLine), filePath>>
             ELSE IF includes(editorName, Emacs)
             THEN <<plusLine(cursorLine), filePath>>
             ELSE <<filePath>>

\* Whether spawnSync finds the command: nvim, vim and vi when the machine
\* has them; a command the user configured is taken to exist.
canSpawn(editor) ==
    lastSegment(editor) \in {Nvim, Vim, Vi} => lastSegment(editor) \in installed

NoCall == [op |-> "none", editor |-> <<>>, line |-> NoLine, args |-> <<>>,
           status |-> "none"]

\* A call of getEditor().
GetEditor ==
    /\ edOut' = [NoCall EXCEPT !.op = "getEditor", !.editor = getEditor]
    /\ UNCHANGED <<envEditor, envVisual, installed>>

\* A call of getEditorArgs(filePath, cursorLine).
GetEditorArgs(cursorLine) ==
    /\ edOut' = [NoCall EXCEPT !.op = "getEditorArgs", !.editor = getEditor,
                               !.line = cursorLine,
                               !.args = getEditorArgs(EdFile, cursorLine)]
    /\ UNCHANGED <<envEditor, envVisual, installed>>

\* openInEditor(filepath, cursorLine, ctx): the status spawnSync reports,
\* null when the command could not be run.
OpenInEditor(cursorLine, exitCode) ==
    /\ exitCode \in {"0", "1"}
    /\ edOut' = [op |-> "openInEditor", editor |-> getEditor,
                 line |-> cursorLine,
                 args |-> getEditorArgs(EdFile, cursorLine),
                 status |-> IF canSpawn(getEditor) THEN exitCode ELSE "null"]
    /\ UNCHANGED <<envEditor, envVisual, installed>>

EditorInit ==
    /\ envEditor \in EditorCommands
    /\ envVisual \in VisualCommands
    /\ installed \in SUBSET {Nvim, Vim, Vi}
    /\ edOut = NoCall

EditorParked ==
    /\ envEditor = <<>>
    /\ envVisual = <<>>
    /\ installed = {Nvim, Vim, Vi}
    /\ edOut = NoCall

----------------------------------------------------------------------------
(* buildFuzzyRegex and the matcher (fd --regex) it is handed to *)

\* The characters the class [.*+?^${}()|[\]\\] of buildFuzzyRegex names.
Metachars ==
    {".", "*", "+", "?", "^", "$", "{", "}", "(", ")", "|", "[", "]", "\\"}

\* query.replace(/[.*+?^${}()|[\]\\]/g, "\\$&")
RECURSIVE escapeMeta(_)
escapeMeta(query) ==
    IF query = <<>> THEN <<>>
    ELSE (IF Head(query) \in Metachars THEN <<"\\", Head(query)>>
          ELSE <<Head(query)>>) \o escapeMeta(Tail(query))

\* chars.join(".*"), chars being what split("") returned.
RECURSIVE joinDotStar(_)
joinDotStar(chars) ==
    IF chars = <<>> THEN <<>>
    ELSE IF Len(chars) = 1 THEN <<chars[1]>>
    ELSE <<chars[1], ".", "*">> \o joinDotStar(Tail(chars))

\* buildFuzzyRegex(query)
buildFuzzyRegex(query) ==
    LET escaped == escapeMeta(query)
    IN  joinDotStar(escaped)

\* The pattern as the regex engine reads it: a sequence of items, each a
\* literal character (written plain or after a backslash) or "." for any
\* character, with or without a "*" after it.
RECURSIVE parseRegex(_, _)
parseRegex(P, i) ==
    IF i > Len(P) THEN <<>>
    ELSE LET escapedAtom == P[i] = "\\"
             broken == \/ escapedAtom /\ i + 1 > Len(P)
                       \/ ~escapedAtom /\ P[i] \in Metachars \ {"."}
             next == IF escapedAtom THEN i + 2 ELSE i + 1
             star == next <= Len(P) /\ P[next] = "*"
         IN  IF broken
             THEN <<[kind |-> "invalid", ch |-> P[i], star |-> FALSE]>>
             ELSE <<[kind |-> IF ~escapedAtom /\ P[i] = "." THEN "any"
                              ELSE "lit",
                     ch |-> IF escapedAtom THEN P[i + 1] ELSE P[i],
                     star |-> star]>>
                    \o parseRegex(P, IF star THEN next + 1 ELSE next)

itemTakes(item, c) == item.kind = "any" \/ (item.kind = "lit" /\ item.ch = c)

\* Whether items k.. match S from position j on (anything may follow).
RECURSIVE matchFrom(_, _, _, _)
matchFrom(items, k, S, j) ==
    IF k > Len(items) THEN TRUE
    ELSE IF items[k].star
    THEN \/ matchFrom(items, k + 1, S, j)
         \/ /\ j <= Len(S)
            /\ itemTakes(items[k], S[j])
            /\ matchFrom(items, k, S, j + 1)
    ELSE /\ j <= Len(S)
         /\ itemTakes(items[k], S[j])
         /\ matchFrom(items, k + 1, S, j + 1)

\* fd --regex P on the path S: an unanchored search; a pattern the engine
\* rejects finds nothing.
regexFinds(P, S) ==
    LET items == parseRegex(P, 1)
    IN  /\ \A k \in 1..Len(items) : items[k].kind # "invalid"
        /\ \E j \in 1..(Len(S) + 1) : matchFrom(items, 1, S, j)

\* Characters of queries and paths.
FuzzyChars == {"a", "b", "."}

Strings(chars, n) == UNION {[1..m -> chars] : m \in 0..n}

NoPattern == [built |-> FALSE, regex |-> <<>>, searched |-> FALSE,
              found |-> FALSE]

\* A call of buildFuzzyRegex(query).
BuildFuzzyRegex ==
    /\ ~fzOut.built
    /\ fzOut' = [fzOut EXCEPT !.built = TRUE,
                              !.regex = buildFuzzyRegex(fzQuery)]
    /\ UNCHANGED <<fzQuery, fzSubject>>

\* The matcher runs the pattern on the path.
RunMatcher ==
    /\ fzOut.built
    /\ ~fzOut.searched
    /\ fzOut' = [fzOut EXCEPT !.searched = TRUE,
                              !.found = regexFinds(fzOut.regex, fzSubject)]
    /\ UNCHANGED <<fzQuery, fzSubject>>

FuzzyInit ==
    /\ fzQuery \in Strings(FuzzyChars, MaxQuery)
    /\ fzSubject \in Strings(FuzzyChars, MaxSubject)
    /\ fzOut = NoPattern

FuzzyParked ==
    /\ fzQuery = <<>>
    /\ fzSubject = <<>>
    /\ fzOut = NoPattern

----------------------------------------------------------------------------
(* edit-prompt: the file selection dialog *)

\* File names the user types, without the extension, character by
\* character; "n" occurs in all of them.
NameChars ==
    {<<"n">>, <<"n", "o", "t", "e", "s">>, <<"p", "l", "a", "n">>}

DotMd == <<".", "m", "d">>

\* A character sequence as one string.
RECURSIVE concat(_)
concat(chars) == IF chars = <<>> THEN "" ELSE Head(chars) \o concat(Tail(chars))

\* join(promptsDir, name) for a name that ends in ".md".
pathOf(stemChars) == [stem |-> concat(stemChars), ext |-> ".md"]

\* The files promptsDir may hold.
AllPaths == {pathOf(c) : c \in NameChars}

\* The path relative to promptsDir, as fd prints it.
relativeChars(path) ==
    (CHOOSE c \in NameChars : concat(c) = path.stem) \o DotMd

\* promptsDir, and the full path fd matches the pattern against.
PromptsDirChars == <<"/", "v", "/">>
fullPathChars(path) == PromptsDirChars \o relativeChars(path)

existsSync(path) == path \in DOMAIN files /\ files[path] # NoFile

\* T.endsWith(M)
endsWith(T, M) == Len(T) >= Len(M) /\ MatchAt(T, Len(T) - Len(M), M)

\* fd's output, in a fixed order of the directory.
ListedPaths == <<pathOf(<<"n">>), pathOf(<<"n", "o", "t", "e", "s">>),
                 pathOf(<<"p", "l", "a", "n">>)>>

\* searchPromptFiles(query, promptsDir): the files fd finds, as
\* suggestions; value is the path, label its basename.
searchPromptFiles(query) ==
    IF ~fdPath \/ trim(query) = <<>> THEN <<>>
    ELSE SelectSeq(ListedPaths,
                   LAMBDA path :
                       /\ existsSync(path)
                       /\ regexFinds(buildFuzzyRegex(query),
                                     fullPathChars(path)))

\* resolvePromptFile(input, promptsDir, mode) for a name relative to
\* promptsDir: the path, or the error.
resolvePromptFile(input, mode) ==
    LET trimmed == trim(input)
        normalized == IF endsWith(trimmed, DotMd) THEN trimmed
                      ELSE trimmed \o DotMd
        fullPath == pathOf(slice(normalized, 0, Len(normalized) - Len(DotMd)))
    IN  IF trimmed = <<>>
        THEN [error |-> "No filename provided", path |-> NoPath]
        ELSE IF mode = "search" /\ ~existsSync(fullPath)
        THEN [error |-> "File not found", path |-> NoPath]
        ELSE [error |-> "", path |-> fullPath]

Keys == {"ctrl+r", "ctrl+c", "tab", "up", "down", "enter", "escape", "text"}

\* What one text key (or paste) adds to the input.
KeyTexts == {<<SP>>, DotMd} \cup NameChars

\* Input values the model lets the user reach: one file name, with or
\* without ".md", and at most one blank around it.
TypedInputs ==
    {<<>>, <<SP>>}
        \cup {pre \o c \o ext \o post :
                 pre \in {<<>>, <<SP>>}, c \in NameChars,
                 ext \in {<<>>, DotMd}, post \in {<<>>, <<SP>>}}

ClosedDialog ==
    [open |-> FALSE, mode |-> "new", input |-> <<>>, suggestions |-> <<>>,
     selectedIndex |-> 0, key |-> "none"]

\* new FileSelectDialog(...)
NewDialog == [ClosedDialog EXCEPT !.open = TRUE]

\* The outcome of one key: the dialog as handleInput leaves it, and what
\* it passed to onDone, if it did (done).
stay(d) == [dlg |-> d, done |-> FALSE, result |-> NullResult]
finish(result) == [dlg |-> ClosedDialog, done |-> TRUE, result |-> result]

\* toggleMode()
toggleModeClearing(d) ==
    LET mode == IF d.mode = "new" THEN "search" ELSE "new"
    IN  [d EXCEPT !.mode = mode, !.input = <<>>, !.suggestions = <<>>,
                  !.selectedIndex = 0]
toggleMode(d) ==
    LET mode == IF d.mode = "new" THEN "search" ELSE "new"
    IN  [d EXCEPT !.mode = mode,
                  !.suggestions = IF mode = "search"
                                  THEN searchPromptFiles(d.input) ELSE <<>>,
                  !.selectedIndex = 0]

\* handleSubmit()
handleSubmit(d) ==
    IF d.mode = "search" /\ Len(d.suggestions) > 0
         /\ d.selectedIndex < Len(d.suggestions)
    THEN finish([path |-> d.suggestions[d.selectedIndex + 1], mode |-> d.mode])
    ELSE LET result == resolvePromptFile(d.input, d.mode)
         IN  IF result.error # "" THEN stay(d)
             ELSE finish([path |-> result.path, mode |-> d.mode])

\* handleEscape()
handleEscape(d) ==
    IF d.mode = "search"
    THEN stay([d EXCEPT !.mode = "new", !.suggestions = <<>>,
                        !.selectedIndex = 0])
    ELSE finish(NullResult)

\* applySelectedSuggestion()
applySelectedSuggestion(d) ==
    IF d.mode = "search" /\ Len(d.suggestions) > 0
         /\ d.selectedIndex < Len(d.suggestions)
    THEN [d EXCEPT !.input =
                     relativeChars(d.suggestions[d.selectedIndex + 1])]
    ELSE d

\* updateSuggestions() after the input changed to `value`.
updateSuggestions(d, value) ==
    [d EXCEPT !.input = value,
              !.suggestions = IF d.mode = "search"
                              THEN searchPromptFiles(value) ELSE <<>>,
              !.selectedIndex = 0]

min(a, b) == IF a < b THEN a ELSE b
max(a, b) == IF a > b THEN a ELSE b

\* The Ctrl+C branch of handleInput.
handleCtrlCOneStage(d) ==
    IF d.mode = "search"
    THEN stay([d EXCEPT !.mode = "new", !.suggestions = <<>>,
                        !.selectedIndex = 0])
    ELSE finish(NullResult)
handleCtrlC(d) ==
    IF d.mode = "search"
    THEN IF trim(d.input) = <<>>
         THEN stay([d EXCEPT !.mode = "new", !.suggestions = <<>>,
                             !.selectedIndex = 0])
         ELSE stay([d EXCEPT !.input = <<>>, !.suggestions = <<>>,
                             !.selectedIndex = 0])
    ELSE IF trim(d.input) = <<>>
         THEN finish(NullResult)
         ELSE stay([d EXCEPT !.input = <<>>])

\* handleInput(data): data is the key, text what a text key carries.
handleInput(d, key, text) ==
    IF key = "ctrl+r" THEN stay(toggleMode(d))
    ELSE IF key = "ctrl+c" THEN handleCtrlC(d)
    ELSE IF key = "tab" THEN stay(applySelectedSuggestion(d))
    ELSE IF d.mode = "search" /\ Len(d.suggestions) > 0 /\ key = "up"
    THEN stay([d EXCEPT !.selectedIndex = max(0, d.selectedIndex - 1)])
    ELSE IF d.mode = "search" /\ Len(d.suggestions) > 0 /\ key = "down"
    THEN stay([d EXCEPT !.selectedIndex =
                          min(Len(d.suggestions) - 1, d.selectedIndex + 1)])
    ELSE IF key = "enter" THEN handleSubmit(d)
    ELSE IF key = "escape" THEN handleEscape(d)
    ELSE IF key = "text" THEN stay(updateSuggestions(d, d.input \o text))
    ELSE stay(d)

\* /edit is invoked: the handler up to promptForFile; without an active
\* file (and with UI and directory) the dialog opens and the handler waits
\* for it, otherwise the handler runs on.
EditInvoked(hasUI, dirExists) ==
    /\ ~dlg.open
    /\ editCount < MaxEdits
    /\ IF hasUI /\ dirExists /\ needsPrompt(activeEditFile)
       THEN /\ dlg' = NewDialog
            /\ editNote' = NoNote
            /\ lastEdit' = [NoRun EXCEPT !.prompted = TRUE]
            /\ editOp' = "open"
            /\ UNCHANGED <<clock, activeEditFile, files, entries, editStatus,
                           editCount, parked, curBranch>>
       ELSE /\ EditCommand(hasUI, dirExists, NullResult, NoEdit, "0")
            /\ UNCHANGED dlg
    /\ UNCHANGED fdPath

\* A key reaches the open dialog; when the dialog is done the /edit handler
\* runs on with its result.
DialogKey(key, text) ==
    /\ dlg.open
    /\ key = "text" => (dlg.input \o text) \in TypedInputs
    /\ key # "text" => text = <<SP>>
    /\ \E out \in {handleInput(dlg, key, text)} :
         IF out.done
         THEN /\ dlg' = [ClosedDialog EXCEPT !.key = key]
              /\ EditCommand(TRUE, TRUE, out.result, NoEdit, "0")
         ELSE /\ dlg' = [out.dlg EXCEPT !.key = key]
              /\ editOp' = "key"
              /\ UNCHANGED <<clock, activeEditFile, files, entries,
                             editStatus, editCount, editNote, lastEdit,
                             parked, curBranch>>
    /\ UNCHANGED fdPath

\* Another program removes a prompt file while the dialog shows it.
FileRemoved(path) ==
    /\ dlg.open
    /\ \E i \in 1..Len(dlg.suggestions) : dlg.suggestions[i] = path
    /\ existsSync(path)
    /\ files' = [files EXCEPT ![path] = NoFile]
    /\ editOp' = "removed"
    /\ UNCHANGED <<clock, activeEditFile, entries, editStatus, editCount,
                   editNote, lastEdit, parked, curBranch, fdPath, dlg>>

\* The state before /edit, promptsDir holding any of the files.
DialogInit ==
    /\ clock = 0
    /\ activeEditFile = NoPath
    /\ files \in [AllPaths -> InitialFiles]
    /\ entries = <<>>
    /\ editStatus = NoStatus
    /\ editCount = 0
    /\ editNote = NoNote
    /\ lastEdit = NoRun
    /\ editOp = "init"
    /\ parked = <<>>
    /\ curBranch = 1
    /\ fdPath \in BOOLEAN
    /\ dlg = ClosedDialog

DlgParked ==
    /\ fdPath = FALSE
    /\ dlg = ClosedDialog

----------------------------------------------------------------------------
(* shared/editor-state.ts: the Q&A section utilities *)

\* getQnaMarkers(timestamp)
questionsStart(timestamp) == <<"<!-- QUESTIONS: ", timestamp, " -->">>
answersStart(timestamp) == <<"<!-- ANSWERS: ", timestamp, " -->">>
sectionEnd(timestamp) == <<"<!-- /QUESTIONS: ", timestamp, " -->">>

\* createQnaSection(questions, timestamp)
createQnaSection(questions, timestamp) ==
    questionsStart(timestamp) \o <<NL>> \o questions \o <<NL>>
        \o answersStart(timestamp) \o <<NL, NL>> \o sectionEnd(timestamp)

\* extractQnaAnswers(content, timestamp): the answers, or Null.
extractQnaAnswers(content, timestamp) ==
    LET answersIndex == indexOf(content, answersStart(timestamp))
        endIndex == indexOf(content, sectionEnd(timestamp))
        contentStart == answersIndex + Len(answersStart(timestamp))
    IN  IF answersIndex = -1 THEN Null
        ELSE IF endIndex = -1 THEN Null
        ELSE IF endIndex <= contentStart THEN Null
        ELSE LET answers == trim(slice(content, contentStart, endIndex))
             IN  IF answers # <<>> THEN answers ELSE Null

\* What texts are made of: the answers and end markers of either
\* timestamp, a character and a blank.
QsPieces ==
    {answersStart(t) : t \in ExStamps}
        \cup {sectionEnd(t) : t \in ExStamps}
        \cup {<<"x">>, <<SP>>}

QsTexts ==
    {Flatten(ps) : ps \in UNION {[1..n -> QsPieces] : n \in 0..MaxPieces}}

\* Questions a section is created with (any string): none, one line, two
\* lines, and texts that quote a marker.
SectionQuestions ==
    {<<>>, <<"q1?">>, <<"a?", NL, "b?">>}
        \cup {<<"see ">> \o answersStart(t) : t \in ExStamps}
        \cup {<<"see ">> \o sectionEnd(t) : t \in ExStamps}

\* What the user writes on the line between the answers marker and the end
\* marker.
WrittenAnswers == {<<SP>>, <<"a1">>, <<SP, "a1", NL, "a2", SP>>}

NoAnswersCall == [phase |-> "text", written |-> <<>>, called |-> FALSE,
                  result |-> Null]

\* A section is created for the questions.
CreateQnaSection(questions) ==
    /\ qsOut.phase = "text"
    /\ ~qsOut.called
    /\ qsFile' = createQnaSection(questions, qsStamp)
    /\ qsQuestions' = questions
    /\ qsOut' = [NoAnswersCall EXCEPT !.phase = "created"]
    /\ UNCHANGED qsStamp

\* The user fills in the created section: the blank line between the
\* answers marker and the end marker gets the text.
WriteAnswers(text) ==
    /\ qsOut.phase = "created"
    /\ qsFile' = questionsStart(qsStamp) \o <<NL>> \o qsQuestions \o <<NL>>
                   \o answersStart(qsStamp) \o <<NL>> \o text \o <<NL>>
                   \o sectionEnd(qsStamp)
    /\ qsOut' = [NoAnswersCall EXCEPT !.phase = "written", !.written = text]
    /\ UNCHANGED <<qsStamp, qsQuestions>>

\* One call extractQnaAnswers(qsFile, qsStamp).
ExtractQnaAnswers ==
    /\ ~qsOut.called
    /\ qsOut' = [qsOut EXCEPT !.called = TRUE,
                              !.result = extractQnaAnswers(qsFile, qsStamp)]
    /\ UNCHANGED <<qsFile, qsStamp, qsQuestions>>

SectionInit ==
    /\ qsFile \in QsTexts
    /\ qsStamp \in ExStamps
    /\ qsQuestions = <<>>
    /\ qsOut = NoAnswersCall

SectParked ==
    /\ qsFile = <<>>
    /\ qsStamp = Stamp(0)
    /\ qsQuestions = <<>>
    /\ qsOut = NoAnswersCall

----------------------------------------------------------------------------
(* better-file-autocomplete: the patch of getFuzzyFileSuggestions *)

\* How many session_start events the model follows.
MaxStarts == 2

\* Function values: the host's getFuzzyFileSuggestions, and the extension's
\* wrapper closed over the function it saved as originalFn.
HostFn == <<"host">>
fuzzyWrapper(originalFn) == <<"fuzzy">> \o originalFn

\* `if (proto._fuzzyPatched) return;`
alreadyPatchedNever(flag) == FALSE
alreadyPatched(flag) == flag

\* Queries the editor passes: up to MaxQuery characters, blanks included.
AcQueries == Strings(FuzzyChars \cup {SP}, MaxQuery)

NoSuggestions == [by |-> "none", arg |-> <<>>]

\* Calling the function value fn on the provider with the query: what it
\* returns and which functions were entered, in order.
RECURSIVE callSuggestions(_, _, _)
callSuggestions(fn, query, entered) ==
    IF Head(fn) = "host"
    THEN [result |-> [by |-> "host", arg |-> query],
          entered |-> Append(entered, "host")]
    ELSE LET trace == Append(entered, "fuzzy")
         IN  IF ~acFdPath
             THEN [result |-> NoSuggestions, entered |-> trace]
             ELSE IF query = <<>> \/ trim(query) = <<>>
             THEN callSuggestions(Tail(fn), query, trace)
             ELSE [result |-> [by |-> "fd", arg |-> buildFuzzyRegex(query)],
                   entered |-> trace]

NoSuggestCall ==
    [called |-> FALSE, starts |-> 0, query |-> <<>>,
     result |-> NoSuggestions, entered |-> <<>>]

\* EVENT session_start of better-file-autocomplete.
PatchOnSessionStart ==
    /\ acStarts < MaxStarts
    /\ acStarts' = acStarts + 1
    /\ IF alreadyPatched(acPatched)
       THEN UNCHANGED <<acPatched, acFn>>
       ELSE /\ acPatched' = TRUE
            /\ acFn' = fuzzyWrapper(acFn)
    /\ UNCHANGED <<acFdPath, acOut>>

\* The editor asks the provider for suggestions.
GetFuzzyFileSuggestions(query) ==
    /\ \E out \in {callSuggestions(acFn, query, <<>>)} :
         acOut' = [called |-> TRUE, starts |-> acStarts, query |-> query,
                   result |-> out.result, entered |-> out.entered]
    /\ UNCHANGED <<acPatched, acFn, acFdPath, acStarts>>

PatchInit ==
    /\ acPatched = FALSE
    /\ acFn = HostFn
    /\ acFdPath \in BOOLEAN
    /\ acStarts = 0
    /\ acOut = NoSuggestCall

PatchParked ==
    /\ acPatched = FALSE
    /\ acFn = HostFn
    /\ acFdPath = FALSE
    /\ acStarts = 0
    /\ acOut = NoSuggestCall

----------------------------------------------------------------------------
(* Specifications *)

\* extractSection on arbitrary texts.
ExNext == ExtractSection /\ UNCHANGED <<editVars, qnaVars, toolVars>>
MoreParked == SectParked /\ PatchParked
ToolsParked == EditorParked /\ FuzzyParked /\ DlgParked /\ MoreParked
ExtractInit == ExInit /\ EditParked /\ QnaInit /\ ToolsParked
SpecExtract == ExtractInit /\ [][ExNext]_vars

\* The edit-prompt extension.
EditStep ==
    /\ \E hasUI \in BOOLEAN, dirExists \in BOOLEAN :
         /\ ~hasUI => dirExists
         /\ \E result \in DialogResults :
              /\ ~EditAsks(hasUI, dirExists) => result = NullResult
              /\ \E exitCode \in ExitCodes :
                   /\ ~EditRuns(hasUI, dirExists, result) => exitCode = "null"
                   /\ \E e \in EditorEdits(editCount + 1) :
                        /\ exitCode = "null" => e = NoEdit
                        /\ EditCommand(hasUI, dirExists, result, e, exitCode)
    /\ UNCHANGED <<exVars, qnaVars, toolVars>>
EditSessionStart == OnSessionStart /\ UNCHANGED <<exVars, qnaVars, toolVars>>
EditTick == Tick /\ UNCHANGED <<exVars, qnaVars, toolVars>>
EditNext == EditStep \/ EditSessionStart \/ EditTick
EditSpecInit == ExParked /\ EditInit /\ QnaInit /\ ToolsParked
SpecEdit == EditSpecInit /\ [][EditNext]_vars

\* The edit-prompt extension over the session lifecycle: the editor is
\* left without typing and exits normally.
SessEdit ==
    /\ \E hasUI \in BOOLEAN, dirExists \in BOOLEAN :
         /\ ~hasUI => dirExists
         /\ \E result \in DialogResults :
              /\ ~EditAsks(hasUI, dirExists) => result = NullResult
              /\ EditCommand(hasUI, dirExists, result, NoEdit, "0")
    /\ UNCHANGED <<exVars, qnaVars, toolVars>>
SessStart == OnSessionStart /\ UNCHANGED <<exVars, qnaVars, toolVars>>
SessSwitch ==
    /\ \E fresh \in BOOLEAN : OnSessionSwitch(fresh)
    /\ UNCHANGED <<exVars, qnaVars, toolVars>>
SessFork ==
    /\ \E k \in 0..Len(entries) : OnSessionFork(k)
    /\ UNCHANGED <<exVars, qnaVars, toolVars>>
SessTree ==
    /\ \E b \in 1..NumBranches : OnSessionTree(b)
    /\ UNCHANGED <<exVars, qnaVars, toolVars>>
SessNext == SessEdit \/ SessStart \/ SessSwitch \/ SessFork \/ SessTree
SessInit == ExParked /\ EditInit /\ QnaInit /\ ToolsParked
SpecSession == SessInit /\ [][SessNext]_vars

\* /edit on prompt files of any content: the dialog names notes.md, the
\* editor is left without typing and exits normally.
PrepEdit ==
    /\ \E result \in DialogResults :
         /\ result = IF EditAsks(TRUE, TRUE)
                     THEN [path |-> [stem |-> "notes", ext |-> ".md"],
                           mode |-> "new"]
                     ELSE NullResult
         /\ EditCommand(TRUE, TRUE, result, NoEdit, "0")
    /\ UNCHANGED <<exVars, qnaVars, toolVars>>
PrepTick == Tick /\ UNCHANGED <<exVars, qnaVars, toolVars>>
PrepNext == PrepEdit \/ PrepTick
PrepSpecInit == ExParked /\ PrepareInit /\ QnaInit /\ ToolsParked
SpecPrepare == PrepSpecInit /\ [][PrepNext]_vars

\* /edit with its file selection dialog.
DlgInvoke ==
    /\ \E hasUI \in BOOLEAN, dirExists \in BOOLEAN :
         /\ ~hasUI => dirExists
         /\ EditInvoked(hasUI, dirExists)
    /\ UNCHANGED <<exVars, qnaVars, editorVars, fuzzyVars, sectVars, patchVars>>
DlgKey ==
    /\ \E key \in Keys, text \in KeyTexts : DialogKey(key, text)
    /\ UNCHANGED <<exVars, qnaVars, editorVars, fuzzyVars, sectVars, patchVars>>
DlgFileRemoved ==
    /\ \E path \in AllPaths : FileRemoved(path)
    /\ UNCHANGED <<exVars, qnaVars, editorVars, fuzzyVars, sectVars, patchVars>>
DlgNext == DlgInvoke \/ DlgKey \/ DlgFileRemoved
DlgSpecInit ==
    /\ ExParked /\ DialogInit /\ QnaInit
    /\ EditorParked /\ FuzzyParked /\ MoreParked
SpecDialog == DlgSpecInit /\ [][DlgNext]_vars

\* The Q&A section utilities.
QsCreate ==
    /\ \E questions \in SectionQuestions : CreateQnaSection(questions)
    /\ UNCHANGED <<exVars, editVars, qnaVars, editorVars, fuzzyVars, dlgVars,
                   patchVars>>
QsWrite ==
    /\ \E text \in WrittenAnswers : WriteAnswers(text)
    /\ UNCHANGED <<exVars, editVars, qnaVars, editorVars, fuzzyVars, dlgVars,
                   patchVars>>
QsExtract ==
    /\ ExtractQnaAnswers
    /\ UNCHANGED <<exVars, editVars, qnaVars, editorVars, fuzzyVars, dlgVars,
                   patchVars>>
SectionNext == QsCreate \/ QsWrite \/ QsExtract
SectionSpecInit ==
    /\ ExParked /\ EditParked /\ QnaInit
    /\ EditorParked /\ FuzzyParked /\ DlgParked /\ SectionInit /\ PatchParked
SpecSection == SectionSpecInit /\ [][SectionNext]_vars

\* The autocomplete patch.
AcSessionStart ==
    /\ PatchOnSessionStart
    /\ UNCHANGED <<exVars, editVars, qnaVars, editorVars, fuzzyVars, dlgVars,
                   sectVars>>
AcSuggest ==
    /\ \E query \in AcQueries : GetFuzzyFileSuggestions(query)
    /\ UNCHANGED <<exVars, editVars, qnaVars, editorVars, fuzzyVars, dlgVars,
                   sectVars>>
PatchNext == AcSessionStart \/ AcSuggest
PatchSpecInit ==
    /\ ExParked /\ EditParked /\ QnaInit
    /\ EditorParked /\ FuzzyParked /\ DlgParked /\ SectParked /\ PatchInit
SpecPatch == PatchSpecInit /\ [][PatchNext]_vars

\* The editor utilities.
EdGetEditor ==
    /\ GetEditor
    /\ UNCHANGED <<exVars, editVars, qnaVars, fuzzyVars, dlgVars, sectVars,
                   patchVars>>
EdGetEditorArgs ==
    /\ \E cursorLine \in CursorLines : GetEditorArgs(cursorLine)
    /\ UNCHANGED <<exVars, editVars, qnaVars, fuzzyVars, dlgVars, sectVars,
                   patchVars>>
EdOpenInEditor ==
    /\ \E cursorLine \in CursorLines, exitCode \in {"0", "1"} :
         /\ ~canSpawn(getEditor) => exitCode = "0"
         /\ OpenInEditor(cursorLine, exitCode)
    /\ UNCHANGED <<exVars, editVars, qnaVars, fuzzyVars, dlgVars, sectVars,
                   patchVars>>
EditorNext == EdGetEditor \/ EdGetEditorArgs \/ EdOpenInEditor
EditorSpecInit ==
    /\ ExParked /\ EditParked /\ QnaInit
    /\ EditorInit /\ FuzzyParked /\ DlgParked /\ MoreParked
SpecEditor == EditorSpecInit /\ [][EditorNext]_vars

\* buildFuzzyRegex and the matcher.
FzBuild ==
    /\ BuildFuzzyRegex
    /\ UNCHANGED <<exVars, editVars, qnaVars, editorVars, dlgVars, sectVars,
                   patchVars>>
FzMatch ==
    /\ RunMatcher
    /\ UNCHANGED <<exVars, editVars, qnaVars, editorVars, dlgVars, sectVars,
                   patchVars>>
FuzzyNext == FzBuild \/ FzMatch
FuzzySpecInit ==
    /\ ExParked /\ EditParked /\ QnaInit
    /\ EditorParked /\ FuzzyInit /\ DlgParked /\ MoreParked
SpecFuzzy == FuzzySpecInit /\ [][FuzzyNext]_vars

\* The qna extension.
QnaSessionStart == SessionStart /\ UNCHANGED <<exVars, editVars, toolVars>>
QnaUserPrompt == UserPrompt /\ UNCHANGED <<exVars, editVars, toolVars>>
QnaQueuedPrompt == QueuedPrompt /\ UNCHANGED <<exVars, editVars, toolVars>>
QnaDraft ==
    /\ \E questions \in Questions : DraftQuestions(questions)
    /\ UNCHANGED <<exVars, editVars, toolVars>>
QnaAgentEnd == AgentEnd /\ UNCHANGED <<exVars, editVars, toolVars>>
QnaQuestions == QuestionsCommand /\ UNCHANGED <<exVars, editVars, toolVars>>
QnaAnswer ==
    /\ \E hasUI \in BOOLEAN, e \in AnswerEdits, exitCode \in ExitCodes :
         AnswerCommand(hasUI, e, exitCode)
    /\ UNCHANGED <<exVars, editVars, toolVars>>
QnaNext ==
    \/ QnaSessionStart
    \/ QnaUserPrompt
    \/ QnaQueuedPrompt
    \/ QnaDraft
    \/ QnaAgentEnd
    \/ QnaQuestions
    \/ QnaAnswer
QnaSpecInit == ExParked /\ EditParked /\ QnaInit /\ ToolsParked
SpecQna == QnaSpecInit /\ [][QnaNext]_vars

\* /answer after /edit, with the places where the handler may throw.
AnsEdit ==
    /\ activeEditFile = NoPath
    /\ \E path \in Paths :
         EditCommand(TRUE, TRUE, [path |-> path, mode |-> "new"], NoEdit, "0")
    /\ UNCHANGED <<exVars, qnaVars, toolVars>>
AnsAnswer ==
    /\ \E e \in AnswerEdits, exitCode \in ExitCodes, fault \in Faults :
         AnswerRun(TRUE, e, exitCode, fault)
    /\ UNCHANGED <<exVars, editVars, toolVars>>
AnswerNext ==
    \/ AnsEdit
    \/ QnaUserPrompt
    \/ QnaQueuedPrompt
    \/ QnaDraft
    \/ QnaAgentEnd
    \/ AnsAnswer
AnswerSpecInit == ExParked /\ EditInit /\ QnaInit /\ ToolsParked
SpecAnswer == AnswerSpecInit /\ [][AnswerNext]_vars

----------------------------------------------------------------------------
(* Properties of extractSection (SpecExtract) *)

\* The markers as the specification writes them: S(t) and E(t).
MarkerS(t) == <<"<!-- prompt: ", t, " -->">>
MarkerE(t) == <<"<!-- prompt-end: ", t, " -->">>

Occurs(T, M) == \E i \in 0..Len(T) : MatchAt(T, i, M)

FirstOccurrence(T, M) ==
    CHOOSE i \in 0..Len(T) :
        MatchAt(T, i, M) /\ \A j \in 0..(i - 1) : ~MatchAt(T, j, M)

Occurrences(T, M) == Cardinality({i \in 0..Len(T) : MatchAt(T, i, M)})

\* r is body with the blanks at both ends removed.
IsTrimOf(r, body) ==
    \E a \in 0..Len(body), b \in 0..Len(body) :
        /\ a <= b
        /\ r = SubSeq(body, a + 1, b)
        /\ \A k \in 1..a : body[k] \in Whitespace
        /\ \A k \in (b + 1)..Len(body) : body[k] \in Whitespace
        /\ r # <<>> => r[1] \notin Whitespace /\ r[Len(r)] \notin Whitespace

\* The text strictly between the first S(t) and the first E(t) of T.
Between(T, t) ==
    SubSeq(T, FirstOccurrence(T, MarkerS(t)) + Len(MarkerS(t)) + 1,
           FirstOccurrence(T, MarkerE(t)))

\* The first E(t) does not start before the first S(t) has ended.
EndAfterStart(T, t) ==
    /\ Occurs(T, MarkerS(t))
    /\ Occurs(T, MarkerE(t))
    /\ FirstOccurrence(T, MarkerE(t))
         >= FirstOccurrence(T, MarkerS(t)) + Len(MarkerS(t))

\* C1: extractSection returns the empty string when the file does not
\* exist, when S(t) does not occur, when E(t) does not occur, and when the
\* first E(t) starts at or before the offset just after the first S(t).
C1_EmptyWithoutProperPair ==
    \A k \in 1..Len(exResults) :
        (\/ exFile = NoFile
         \/ ~Occurs(exFile, MarkerS(exArg))
         \/ ~Occurs(exFile, MarkerE(exArg))
         \/ FirstOccurrence(exFile, MarkerE(exArg))
              <= FirstOccurrence(exFile, MarkerS(exArg)) + Len(MarkerS(exArg)))
            => exResults[k] = <<>>

\* C1 witness: the first end marker comes before the start marker, a whole
\* section with text follows it, and the call returned the empty string.
C1_Witness ==
    /\ exResults # <<>>
    /\ exFile # NoFile
    /\ Occurs(exFile, MarkerS(exArg) \o <<"x">> \o MarkerE(exArg))
    /\ FirstOccurrence(exFile, MarkerE(exArg))
         < FirstOccurrence(exFile, MarkerS(exArg))
    /\ exResults[1] = <<>>

\* C2: when both markers occur and the first E(t) starts after the end of
\* the first S(t), the result is the text strictly between those two
\* markers with the blanks at its ends removed; it holds neither of the two
\* delimiting markers, and no E(t) at all.
C2_TrimmedBetweenMarkers ==
    \A k \in 1..Len(exResults) :
        (exFile # NoFile /\ EndAfterStart(exFile, exArg))
            => /\ IsTrimOf(exResults[k], Between(exFile, exArg))
               /\ ~Occurs(exResults[k], MarkerE(exArg))

\* C2 witness: a section whose text has blanks around it was extracted.
C2_Witness ==
    /\ exResults # <<>>
    /\ exFile # NoFile
    /\ EndAfterStart(exFile, exArg)
    /\ Len(Between(exFile, exArg)) > Len(exResults[1])
    /\ exResults[1] = <<"x">>

\* T holds exactly one well-formed section for t.
HoldsSection(T, t) ==
    /\ Occurrences(T, MarkerS(t)) = 1
    /\ Occurrences(T, MarkerE(t)) = 1
    /\ EndAfterStart(T, t)

\* The sections of t1 and t2 do not overlap.
Apart(T, t1, t2) ==
    \/ FirstOccurrence(T, MarkerE(t1)) < FirstOccurrence(T, MarkerS(t2))
    \/ FirstOccurrence(T, MarkerE(t2)) < FirstOccurrence(T, MarkerS(t1))

\* C3: for distinct timestamps t1 and t2 the markers built for t1 are not
\* and do not match the markers of t2; in a file holding a section for each,
\* extractSection(file, t1) is the trimmed text of t1's section and holds no
\* marker of t2; and it is empty when no marker of t1 occurs although a
\* section of t2 with text does.
C3_NoCrossTalk ==
    \A k \in 1..Len(exResults) : \A t2 \in ExStamps \ {exArg} :
        /\ ~Occurs(MarkerS(t2), startMarker(exArg))
        /\ ~Occurs(MarkerE(t2), endMarker(exArg))
        /\ ~Occurs(MarkerE(t2), startMarker(exArg))
        /\ ~Occurs(MarkerS(t2), endMarker(exArg))
        /\ (exFile # NoFile /\ HoldsSection(exFile, exArg)
              /\ HoldsSection(exFile, t2) /\ Apart(exFile, exArg, t2))
             => /\ IsTrimOf(exResults[k], Between(exFile, exArg))
                /\ ~Occurs(exResults[k], MarkerS(t2))
                /\ ~Occurs(exResults[k], MarkerE(t2))
        /\ (exFile # NoFile /\ ~Occurs(exFile, MarkerS(exArg))
              /\ ~Occurs(exFile, MarkerE(exArg)) /\ HoldsSection(exFile, t2)
              /\ trim(Between(exFile, t2)) # <<>>)
             => exResults[k] = <<>>

\* C3 witness: the file holds a section for each timestamp and the call
\* returned the text of its own.
C3_Witness ==
    /\ exResults # <<>>
    /\ exFile # NoFile
    /\ \E t2 \in ExStamps \ {exArg} :
         /\ HoldsSection(exFile, exArg)
         /\ HoldsSection(exFile, t2)
         /\ Apart(exFile, exArg, t2)
    /\ exResults[1] = <<"x">>

----------------------------------------------------------------------------
(* Properties of the /edit command (SpecEdit) *)

\* What an /edit whose editor ran and exited is to do, given what the user
\* did to the section it created: send the trimmed text typed there, or
\* notify "No prompt entered" and send nothing when that text is blank or a
\* marker of the section was deleted.
SendsOnlyOwnSection(run, note) ==
    LET own == trim(run.edit.text)
        gone == run.edit.delStart \/ run.edit.delEnd
    IN  IF gone \/ own = <<>>
        THEN run.sent = Null /\ note = "No prompt entered"
        ELSE run.sent = own

\* C4: over any sequence of /edit invocations on the active file, the
\* message an invocation sends is the trimmed text left inside the marker
\* pair that invocation created, never text of an earlier section; when the
\* new section is empty or one of its markers is gone, "No prompt entered"
\* is notified and nothing is sent.
C4_OnlyOwnSectionSent ==
    (lastEdit.ran /\ lastEdit.exitCode # "null")
        => SendsOnlyOwnSection(lastEdit, editNote)

----------------------------------------------------------------------------
(* Properties of the qna extension (SpecQna) *)

IsDraft(en) ==
    en.type = "message" /\ en.role = "toolResult" /\ en.name = "draft_questions"
IsClear(en) == en.type = "custom" /\ en.name = "qna-clear"

\* The position of the last draft_questions tool result of b, or 0.
LastDraft(b) ==
    IF \E i \in 1..Len(b) : IsDraft(b[i])
    THEN CHOOSE i \in 1..Len(b) :
             IsDraft(b[i]) /\ \A j \in (i + 1)..Len(b) : ~IsDraft(b[j])
    ELSE 0

\* C6: after session_start, questions are pending exactly when the branch
\* has a draft_questions result with no qna-clear entry after the last one,
\* and they are then the questions of that last result; with no draft, or a
\* qna-clear after the last draft, nothing is pending.
C6_RestoresLastDraft ==
    lastOp.op = "session_start" =>
        LET d == LastDraft(branch)
        IN  IF d = 0 \/ \E j \in (d + 1)..Len(branch) : IsClear(branch[j])
            THEN ~Truthy(pendingQuestions)
            ELSE \/ pendingQuestions = branch[d].data
                 \/ ~Truthy(branch[d].data) /\ ~Truthy(pendingQuestions)

\* The lines of a text, as a set.
LineSet(T) == {split(T)[i] : i \in 1..Len(split(T))}

\* The lines the commands add around the questions.
Decoration ==
    {<<>>, <<"Pending questions:">>, <<"----">>, <<"Run /answer to respond">>,
     <<"# Questions">>, <<"# Answers">>}

\* `shown` presents the questions q and no other question text.
PresentsOnly(shown, q) ==
    /\ \A l \in LineSet(q) : trim(l) # <<>> => l \in LineSet(shown)
    /\ LineSet(shown) \subseteq LineSet(q) \cup Decoration

\* C7: draft_questions overwrites: whatever was pending, after the call
\* the pending questions are the ones just drafted, and /questions and
\* /answer then present the pending questions and nothing else.
C7_DraftOverwrites ==
    [][/\ lastOp'.op = "draft_questions"
            => pendingQuestions' = lastOp'.questions
       /\ (lastOp'.op = "questions" /\ Truthy(pendingQuestions))
            => /\ qnaNote'.kind \in {"notify", "select"}
               /\ PresentsOnly(qnaNote'.text, pendingQuestions)
       /\ (lastOp'.op = "answer" /\ lastOp'.hasUI /\ Truthy(pendingQuestions))
            => /\ qnaNote'.kind = "editor"
               /\ PresentsOnly(qnaNote'.text, pendingQuestions)]_vars

\* C7 witness: two different texts were drafted one after the other, and
\* /questions showed the second.
C7_Witness ==
    /\ lastOp.op = "questions"
    /\ Len(branch) >= 2
    /\ IsDraft(branch[Len(branch)])
    /\ IsDraft(branch[Len(branch) - 1])
    /\ Truthy(branch[Len(branch) - 1].data)
    /\ branch[Len(branch) - 1].data # branch[Len(branch)].data
    /\ Truthy(pendingQuestions)
    /\ pendingQuestions = branch[Len(branch)].data
    /\ PresentsOnly(qnaNote.text, branch[Len(branch)].data)
    /\ ~PresentsOnly(qnaNote.text, branch[Len(branch) - 1].data)

\* The custom entries among those a step appended to the branch.
AppendedCustom(before, after) ==
    SelectSeq(SubSeq(after, Len(before) + 1, Len(after)),
              LAMBDA en : en.type = "custom")

\* C8: before_agent_start with questions pending clears them, appends
\* exactly one qna-clear entry, with reason "skipped", and removes the
\* status; with nothing pending it appends no entry and changes nothing.
C8_SkippedOnNewPrompt ==
    [][lastOp'.op = "before_agent_start"
         => /\ SubSeq(branch', 1, Len(branch)) = branch
            /\ IF Truthy(pendingQuestions)
               THEN /\ pendingQuestions' = Null
                    /\ AppendedCustom(branch, branch') = <<ClearEntry("skipped")>>
                    /\ qnaStatus' = NoStatus
               ELSE /\ pendingQuestions' = pendingQuestions
                    /\ AppendedCustom(branch, branch') = <<>>
                    /\ qnaStatus' = qnaStatus]_vars

\* C8 witness: a prompt was typed while questions were pending.
C8_Witness ==
    /\ lastOp.op = "before_agent_start"
    /\ Truthy(lastOp.questions)
    /\ pendingQuestions = Null
    /\ qnaStatus = NoStatus
    /\ Len(branch) >= 2
    /\ branch[Len(branch) - 1] = ClearEntry("skipped")

\* C9: /answer with a non-empty response appends one qna-clear entry with
\* reason "answered", clears the pending questions and the status, and hands
\* the response to sendUserMessage; the agent start that message triggers
\* appends the message after that entry and no further qna-clear entry.
C9_AnsweredOnce ==
    [][/\ (lastOp'.op = "answer" /\ lastOp'.response # Null)
            => /\ branch' = Append(branch, ClearEntry("answered"))
               /\ pendingQuestions' = Null
               /\ qnaStatus' = NoStatus
               /\ inbox' = lastOp'.response
       /\ (lastOp'.op = "before_agent_start" /\ inbox # Null)
            => /\ branch' = Append(branch, UserEntry(inbox))
               /\ branch[Len(branch)] = ClearEntry("answered")
               /\ pendingQuestions' = Null]_vars

\* C9 witness: an answer was written, sent, and started the agent.
C9_Witness ==
    /\ lastOp.op = "before_agent_start"
    /\ Len(branch) >= 3
    /\ branch[Len(branch)] = UserEntry(<<"a1">>)
    /\ branch[Len(branch) - 1] = ClearEntry("answered")
    /\ IsDraft(branch[Len(branch) - 2])
    /\ pendingQuestions = Null

\* C10: for every drafted text, when the user saves questions.md without
\* writing an answer, or the editor exits with a non-zero status, /answer
\* sends nothing, appends no entry and leaves the same questions pending.
C10_EmptyResponseCancels ==
    [][(/\ lastOp'.op = "answer"
        /\ lastOp'.hasUI
        /\ Truthy(pendingQuestions)
        /\ lastOp'.edit \in {"none", "blank"} \/ lastOp'.exitCode # "0")
         => /\ inbox' = Null
            /\ branch' = branch
            /\ pendingQuestions' = pendingQuestions]_vars

----------------------------------------------------------------------------
(* Properties of the active file over a session's life (SpecSession) *)

IsStateEntry(en) == en.customType = "edit-prompt-state"

StateEntries(es) == SelectSeq(es, IsStateEntry)

\* The activePromptFile of the last edit-prompt-state entry of es, if any.
LastActivePromptFile(es) ==
    IF StateEntries(es) = <<>> THEN NoPath
    ELSE StateEntries(es)[Len(StateEntries(es))].activePromptFile

\* C11: an /edit that gets to the file prompts for the filename exactly when
\* the session has no active file yet; it then makes the chosen file the
\* active one and appends one edit-prompt-state entry naming it.  Every
\* later /edit of the session works on that same file, without prompting
\* and without appending an entry.
C11_PromptOncePerSession ==
    [][(editOp' = "edit" /\ lastEdit'.ran)
         => IF StateEntries(entries) = <<>>
            THEN /\ lastEdit'.prompted
                 /\ lastEdit'.path \in Paths
                 /\ activeEditFile' = lastEdit'.path
                 /\ Len(entries') = Len(entries) + 1
                 /\ SubSeq(entries', 1, Len(entries)) = entries
                 /\ IsStateEntry(entries'[Len(entries')])
                 /\ entries'[Len(entries')].activePromptFile = lastEdit'.path
            ELSE /\ ~lastEdit'.prompted
                 /\ lastEdit'.path = LastActivePromptFile(entries)
                 /\ activeEditFile' = activeEditFile
                 /\ activeEditFile' = lastEdit'.path
                 /\ entries' = entries]_vars

\* C11 witness: the second /edit of a session ran on the file the first one
\* asked for, and the session holds one entry.
C11_Witness ==
    /\ editOp = "edit"
    /\ editCount = 2
    /\ lastEdit.ran
    /\ ~lastEdit.prompted
    /\ Len(StateEntries(entries)) = 1
    /\ activeEditFile = lastEdit.path
    /\ Occurrences(files[activeEditFile], <<"<!-- prompt: ">>) = 2

LifecycleOps ==
    {"session_start", "session_switch", "session_fork", "session_tree"}

\* C12: after session_start, session_switch, session_fork and session_tree
\* the active edit file is the activePromptFile of the last
\* edit-prompt-state entry of the session now loaded, and it is unset, with
\* no status shown, when that session has none.
C12_ActiveFileFromEntries ==
    editOp \in LifecycleOps
        => /\ activeEditFile = LastActivePromptFile(entries)
           /\ StateEntries(entries) = <<>>
                => activeEditFile = NoPath /\ editStatus = NoStatus
           /\ StateEntries(entries) # <<>>
                => editStatus = basename(LastActivePromptFile(entries))

\* C12 witness: a session with an active file was left for a new one, and
\* nothing of it is left.
C12_Witness ==
    /\ editOp = "session_switch"
    /\ entries = <<>>
    /\ StateEntries(parked) # <<>>
    /\ activeEditFile = NoPath
    /\ editStatus = NoStatus

\* C13: session_tree, to whichever branch, leaves the active edit file and
\* its status as they were.
C13_TreeKeepsActiveFile ==
    [][editOp' = "session_tree"
         => activeEditFile' = activeEditFile /\ editStatus' = editStatus]_vars

\* C13 witness: the user is on another branch than the one where the file
\* was chosen, and the file is still active.
C13_Witness ==
    /\ editOp = "session_tree"
    /\ activeEditFile # NoPath
    /\ StateEntries(entries) # <<>>
    /\ StateEntries(entries)[1].branch # curBranch

----------------------------------------------------------------------------
(* Properties of the editor utilities (SpecEditor) *)

\* The first editor of the fixed list the machine has.
FirstInstalled ==
    IF Nvim \in installed THEN Nvim
    ELSE IF Vim \in installed THEN Vim
    ELSE Vi

\* C14: getEditor returns $EDITOR when it is set and not empty, otherwise
\* $VISUAL when it is set and not empty, otherwise it falls back through
\* nvim, vim, vi in that order: the first of them the machine has.
C14_EditorFallbackChain ==
    edOut.op \in {"getEditor", "openInEditor"}
        => edOut.editor =
             IF envEditor # <<>> THEN envEditor
             ELSE IF envVisual # <<>> THEN envVisual
             ELSE IF installed # {} THEN FirstInstalled
             ELSE edOut.editor

\* The editors of the cursor positioning table.
TableEditors == {Vim, Nvim, Vi, Nano, Emacs}

\* C15: with a cursor line, getEditorArgs returns ['+<line>', file] exactly
\* when the name of the editor command (what follows its last "/", in lower
\* case) is vim, nvim, vi, nano or emacs, and [file] for every other
\* editor; without a cursor line it returns [file].
C15_ArgsFollowTable ==
    edOut.op = "getEditorArgs"
        => edOut.args =
             IF /\ edOut.line # NoLine
                /\ toLowerCase(lastSegment(edOut.editor)) \in TableEditors
             THEN <<"+" \o ToString(edOut.line), EdFile>>
             ELSE <<EdFile>>

----------------------------------------------------------------------------
(* Properties of buildFuzzyRegex (SpecFuzzy) *)

\* Q's characters occur in S in Q's order.
RECURSIVE InOrder(_, _)
InOrder(Q, S) ==
    IF Q = <<>> THEN TRUE
    ELSE IF S = <<>> THEN FALSE
    ELSE IF Head(Q) = Head(S) THEN InOrder(Tail(Q), Tail(S))
    ELSE InOrder(Q, Tail(S))

\* One query character as the pattern is to hold it: escaped if a
\* metacharacter, and kept together with its backslash.
Unit(c) == IF c \in Metachars THEN <<"\\", c>> ELSE <<c>>

\* The units of Q joined by ".*".
RECURSIVE UnitsJoined(_)
UnitsJoined(Q) ==
    IF Q = <<>> THEN <<>>
    ELSE IF Len(Q) = 1 THEN Unit(Q[1])
    ELSE Unit(Q[1]) \o <<".", "*">> \o UnitsJoined(Tail(Q))

\* C16: buildFuzzyRegex(query) is the query's characters, each
\* metacharacter escaped and kept as one unit with its backslash, joined by
\* ".*"; and the pattern matches exactly the strings that hold the query's
\* literal characters in order.
C16_FuzzyRegexMatchesInOrder ==
    /\ fzOut.built => fzOut.regex = UnitsJoined(fzQuery)
    /\ fzOut.searched => (fzOut.found <=> InOrder(fzQuery, fzSubject))

----------------------------------------------------------------------------
(* Properties of prepareFile (SpecPrepare) *)

IsDashes(line) == trim(line) = <<"---">>

\* The file opens with a "---" line and a later "---" line closes it.
HasFrontmatter(T) ==
    /\ T # NoFile
    /\ IsDashes(split(T)[1])
    /\ \E k \in 2..Len(split(T)) : IsDashes(split(T)[k])

\* The line that closes the frontmatter (1-based).
FrontmatterClose(T) ==
    CHOOSE k \in 2..Len(split(T)) :
        /\ IsDashes(split(T)[k])
        /\ \A j \in 2..(k - 1) : ~IsDashes(split(T)[j])

\* The lines of a new, empty section for timestamp t, with the blank lines
\* around it.
SectionLines(t) == << <<>>, MarkerS(t), <<>>, MarkerE(t), <<>> >>

\* Where the start markers of the model's timestamps are, top to bottom,
\* the newer timestamp is never below the older one.
NewestFirst(T) ==
    \A a \in 0..MaxClock, b \in 0..MaxClock :
        (a < b /\ Occurs(T, MarkerS(Stamp(a))) /\ Occurs(T, MarkerS(Stamp(b))))
            => \A i \in 0..Len(T), j \in 0..Len(T) :
                 (MatchAt(T, i, MarkerS(Stamp(a)))
                    /\ MatchAt(T, j, MarkerS(Stamp(b)))) => j < i

\* C17: on a file with frontmatter prepareFile writes the frontmatter
\* lines, then the new marker pair, then every line that followed the
\* frontmatter, all unchanged and in their order; and after any sequence of
\* /edit invocations the sections of a file stand newest first.
C17_InsertAfterFrontmatter ==
    /\ [][(editOp' = "edit" /\ lastEdit'.ran
             /\ HasFrontmatter(files[lastEdit'.path]))
            => LET old == split(files[lastEdit'.path])
                   k == FrontmatterClose(files[lastEdit'.path])
               IN  split(files'[lastEdit'.path])
                     = SubSeq(old, 1, k)
                         \o SectionLines(lastEdit'.timestamp)
                         \o SubSeq(old, k + 1, Len(old))]_vars
    /\ [](\A p \in Paths : files[p] # NoFile => NewestFirst(files[p]))

\* C17 witness: a file with frontmatter and a body was edited twice, a
\* second apart; both sections stand between the frontmatter and the body.
C17_Witness ==
    /\ editCount = 2
    /\ lastEdit.ran
    /\ lastEdit.timestamp = Stamp(1)
    /\ LET T == files[lastEdit.path]
       IN  /\ HasFrontmatter(T)
           /\ Occurs(T, MarkerS(Stamp(0)))
           /\ Occurs(T, MarkerS(Stamp(1)))
           /\ split(T)[FrontmatterClose(T) + 2] = MarkerS(Stamp(1))
           /\ split(T)[Len(split(T))] = <<"y">>

\* C18: on an existing file without frontmatter, whatever its content,
\* "---" lines in the body included, prepareFile puts the new section at
\* the very start: the start marker is line 1 and the old content follows
\* the section unchanged.
C18_PrependWithoutFrontmatter ==
    [][(editOp' = "edit" /\ lastEdit'.ran
          /\ files[lastEdit'.path] # NoFile
          /\ ~HasFrontmatter(files[lastEdit'.path]))
         => /\ split(files'[lastEdit'.path])[1] = MarkerS(lastEdit'.timestamp)
            /\ files'[lastEdit'.path]
                 = MarkerS(lastEdit'.timestamp) \o <<NL, NL>>
                     \o MarkerE(lastEdit'.timestamp) \o <<NL, NL>>
                     \o files[lastEdit'.path]]_vars

(***************************************************************************)
(* The file selection dialog of /edit.                                     *)
(***************************************************************************)

\* A step in which the open dialog handles a key.
KeyStep == dlg.open /\ editOp' \in {"key", "edit"}

\* The input is submitted empty (Enter, nothing but blanks typed and no
\* suggestion selected), or cancelled (Escape in New File mode, Ctrl+C in
\* New File mode on an empty input).
EmptyOrCancelled ==
    /\ KeyStep
    /\ \/ /\ dlg'.key = "enter"
          /\ trim(dlg.input) = <<>>
          /\ Len(dlg.suggestions) = 0
       \/ /\ dlg'.key = "escape"
          /\ dlg.mode = "new"
       \/ /\ dlg'.key = "ctrl+c"
          /\ dlg.mode = "new"
          /\ trim(dlg.input) = <<>>

\* C19: an empty or cancelled filename input makes /edit exit silently
\* with the state unchanged: the dialog is gone, nothing is notified, no
\* active file is set, no edit-prompt-state entry is appended, no file is
\* created or modified, no editor is opened, no user message is sent, and
\* the next /edit prompts for a filename again.
C19_EmptyOrCancelExitsSilently ==
    [][EmptyOrCancelled =>
         /\ ~dlg'.open
         /\ editNote' = NoNote
         /\ activeEditFile' = NoPath
         /\ entries' = entries
         /\ files' = files
         /\ ~lastEdit'.ran
         /\ lastEdit'.sent = Null
         /\ needsPrompt(activeEditFile')]_vars

\* The file a submit in Search mode names: the selected suggestion, or
\* else the typed filename.
SubmittedPath ==
    IF Len(dlg.suggestions) > 0
    THEN dlg.suggestions[dlg.selectedIndex + 1]
    ELSE LET trimmed == trim(dlg.input)
             normalized == IF endsWith(trimmed, DotMd) THEN trimmed
                           ELSE trimmed \o DotMd
         IN  pathOf(slice(normalized, 0, Len(normalized) - Len(DotMd)))

\* C20: in Search mode, submitting a filename that does not exist in
\* promptsDir produces the error notification, and no file is selected or
\* created.
C20_SearchSubmitMissingFileNotifies ==
    [][(/\ KeyStep
        /\ dlg.mode = "search"
        /\ dlg'.key = "enter"
        /\ Len(dlg.suggestions) > 0 \/ trim(dlg.input) # <<>>
        /\ ~existsSync(SubmittedPath))
       => /\ editNote' = "File not found"
          /\ activeEditFile' = activeEditFile
          /\ entries' = entries
          /\ files' = files]_vars

(***************************************************************************)
(* The editor's exit status in /edit.                                      *)
(***************************************************************************)

\* C21: when the editor of /edit exits abnormally (no exit status, or a
\* non-zero exit status), the warning is notified and no prompt is
\* extracted or sent.
C21_AbnormalExitWarns ==
    [][(/\ editOp' = "edit"
        /\ lastEdit'.ran
        /\ lastEdit'.exitCode # "0")
       => /\ editNote' = "Editor closed unexpectedly"
          /\ lastEdit'.sent = Null]_vars

(***************************************************************************)
(* The modes of the file selection dialog.                                 *)
(***************************************************************************)

otherMode(mode) == IF mode = "new" THEN "search" ELSE "new"

\* C22: the dialog starts in New File mode; Ctrl+R toggles between New File
\* and Search and keeps the input text; Escape in Search mode returns to
\* New File mode and keeps the input text; Escape in New File mode cancels
\* the dialog, and no file is selected.
C22_ModeTransitions ==
    [][/\ (~dlg.open /\ dlg'.open) => (dlg'.mode = "new" /\ dlg'.input = <<>>)
       /\ (KeyStep /\ dlg'.key = "ctrl+r")
            => /\ dlg'.open
               /\ dlg'.mode = otherMode(dlg.mode)
               /\ dlg'.input = dlg.input
       /\ (KeyStep /\ dlg'.key = "escape" /\ dlg.mode = "search")
            => /\ dlg'.open
               /\ dlg'.mode = "new"
               /\ dlg'.input = dlg.input
       /\ (KeyStep /\ dlg'.key = "escape" /\ dlg.mode = "new")
            => /\ ~dlg'.open
               /\ activeEditFile' = NoPath
               /\ entries' = entries
               /\ files' = files
               /\ ~lastEdit'.ran]_vars

\* Escape has brought the dialog back from Search mode (where only Ctrl+R
\* leads) with the typed text still in the input.
C22_Witness ==
    /\ dlg.open
    /\ dlg.key = "escape"
    /\ dlg.mode = "new"
    /\ trim(dlg.input) # <<>>

\* C23: Ctrl+C is two-stage.  On an input that is not empty (blanks aside)
\* it only clears the input: the mode is unchanged and the dialog stays
\* open.  On an empty input it cancels the dialog in New File mode and
\* returns to New File mode in Search mode.  Hence a Ctrl+C that follows a
\* Ctrl+C in New File mode cancels the dialog.
C23_CtrlCTwoStage ==
    [][(KeyStep /\ dlg'.key = "ctrl+c")
       => /\ trim(dlg.input) # <<>>
               => /\ dlg'.open
                  /\ dlg'.mode = dlg.mode
                  /\ dlg'.input = <<>>
          /\ (trim(dlg.input) = <<>> /\ dlg.mode = "new")
               => /\ ~dlg'.open
                  /\ activeEditFile' = NoPath
                  /\ ~lastEdit'.ran
          /\ (trim(dlg.input) = <<>> /\ dlg.mode = "search")
               => /\ dlg'.open
                  /\ dlg'.mode = "new"
          /\ (dlg.key = "ctrl+c" /\ dlg.mode = "new") => ~dlg'.open]_vars

\* A first Ctrl+C has cleared a typed name and left the dialog open in New
\* File mode, where the second one cancels.
C23_Witness ==
    /\ dlg.open
    /\ dlg.key = "ctrl+c"
    /\ dlg.mode = "new"
    /\ dlg.input = <<>>
    /\ editOp = "key"

(***************************************************************************)
(* extractQnaAnswers.                                                      *)
(***************************************************************************)

\* The text strictly between the first answers marker and the first end
\* marker of T.
BetweenAnswers(T, t) ==
    SubSeq(T, FirstOccurrence(T, answersStart(t)) + Len(answersStart(t)) + 1,
           FirstOccurrence(T, sectionEnd(t)))

\* Both markers occur and the first end marker starts after the end of the
\* first answers marker.
EndAfterAnswers(T, t) ==
    /\ Occurs(T, answersStart(t))
    /\ Occurs(T, sectionEnd(t))
    /\ FirstOccurrence(T, sectionEnd(t))
         > FirstOccurrence(T, answersStart(t)) + Len(answersStart(t))

IsBlank(T) == \A k \in 1..Len(T) : T[k] \in Whitespace

\* C24: extractQnaAnswers(content, t) returns only the trimmed text between
\* the answers marker and the end marker of t; it returns null when either
\* marker is missing, when the end marker does not come after the answers
\* marker, and when the text between them is empty.  For a freshly created
\* section createQnaSection(q, t) it returns null, and once non-blank text
\* is written between the markers it returns that text, trimmed.
C24_AnswersBetweenMarkers ==
    qsOut.called
        => /\ (~EndAfterAnswers(qsFile, qsStamp)
                 \/ IsBlank(BetweenAnswers(qsFile, qsStamp)))
                => qsOut.result = Null
           /\ (/\ EndAfterAnswers(qsFile, qsStamp)
               /\ ~IsBlank(BetweenAnswers(qsFile, qsStamp)))
                => /\ qsOut.result # Null
                   /\ IsTrimOf(qsOut.result, BetweenAnswers(qsFile, qsStamp))
           /\ qsOut.phase = "created" => qsOut.result = Null
           /\ (qsOut.phase = "written" /\ ~IsBlank(qsOut.written))
                => /\ qsOut.result # Null
                   /\ IsTrimOf(qsOut.result, qsOut.written)

(***************************************************************************)
(* The file /answer works on.                                              *)
(***************************************************************************)

\* C25: the temporary file of /answer and its directory are removed on
\* every exit path after their creation: after a sent answer, after an
\* empty or cancelled response, and when opening the editor or handling the
\* response throws.
C25_TempFileRemoved ==
    (lastOp.op = "answer" /\ lastOp.file = TempPath) => tmpdir = {}

\* /answer wrote the temporary file, the user answered, sendUserMessage
\* threw, and no temporary directory is left.
C25_Witness ==
    /\ lastOp.op = "answer"
    /\ lastOp.file = TempPath
    /\ lastOp.fault = "send"
    /\ lastOp.response # Null
    /\ tmpdir = {}

\* A step of /answer that opened the editor.
AnswerOpened ==
    /\ agent = "idle"
    /\ agent' = "idle"
    /\ inbox = Null
    /\ UNCHANGED editVars
    /\ lastOp'.op = "answer"
    /\ lastOp'.file # NoPath

\* C26: if /edit has set an active file, /answer writes the questions into
\* that file and opens it; only when no active edit file is set does
\* /answer create and use a temporary file.
C26_AnswerUsesActiveFile ==
    [][AnswerOpened
       => IF activeEditFile # NoPath
          THEN /\ lastOp'.file = activeEditFile
               /\ files'[activeEditFile] # NoFile
               /\ Occurs(files'[activeEditFile], lastOp'.questions)
          ELSE lastOp'.file = TempPath]_vars

(***************************************************************************)
(* The status indicator of the qna extension.                              *)
(***************************************************************************)

\* C27: after every operation (session_start, draft_questions,
\* before_agent_start, /answer, /questions) the "qna" status shows
\* "Questions pending - /answer to respond" if and only if there are
\* pending questions, and is cleared otherwise.
C27_StatusIffPending ==
    /\ Truthy(pendingQuestions)
         => qnaStatus = "Questions pending - /answer to respond"
    /\ ~Truthy(pendingQuestions) => qnaStatus = NoStatus

\* /answer has sent a response: nothing is pending and the status is
\* cleared.
C27_Witness ==
    /\ lastOp.op = "answer"
    /\ lastOp.response # Null
    /\ Truthy(lastOp.questions)
    /\ pendingQuestions = Null
    /\ qnaStatus = NoStatus

(***************************************************************************)
(* The patch of the autocomplete provider.                                 *)
(***************************************************************************)

\* C28: the patch is applied at most once.  After any number of
\* session_start events the prototype's getFuzzyFileSuggestions is the
\* fuzzy wrapper whose saved original is the host's unpatched function,
\* never the wrapper itself; with an fd path an empty or blank query is
\* answered by the host's original function, entered straight from the
\* wrapper; with no fd path the wrapper returns the empty list.
C28_PatchedOnce ==
    /\ acStarts > 0
         => /\ acPatched
            /\ acFn = fuzzyWrapper(HostFn)
    /\ (acOut.called /\ acOut.starts > 0)
         => /\ ~acFdPath => acOut.result = NoSuggestions
            /\ (acFdPath /\ trim(acOut.query) = <<>>)
                 => /\ acOut.result = [by |-> "host", arg |-> acOut.query]
                    /\ acOut.entered = <<"fuzzy", "host">>
            /\ Cardinality({k \in 1..Len(acOut.entered) :
                              acOut.entered[k] = "fuzzy"}) = 1

\* After a second session_start a blank query was passed on to the host.
C28_Witness ==
    /\ acStarts >= 2
    /\ acOut.called
    /\ acOut.starts >= 2
    /\ acFdPath
    /\ acOut.query = <<SP>>
    /\ acOut.result.by = "host"

====
